---- MODULE Spec2Model ----
(***************************************************************************)
(* Model of backend/services/queue_service.py (AIQueueService): a bounded  *)
(* asyncio.Queue, a pool of worker coroutines, the result table            *)
(* `processing`, the expiry sweep, the polling get_result and shutdown.    *)
(*                                                                         *)
(* The service runs on one asyncio event loop, so every action of it is    *)
(* the code a coroutine executes between two suspension points (await).    *)
(*                                                                         *)
(* Model of backend/services/connection_pool.py (ConnectionPool): the idle *)
(* queue.Queue, the counters guarded by the Lock, the get_connection       *)
(* generator with its retry loop, _return_connection and close_all, used   *)
(* by several OS threads.                                                  *)
(*                                                                         *)
(* Model of backend/middleware/rate_limiter.py (TokenBucket): the token    *)
(* count and the refill time under the bucket's lock, against a clock.     *)
(* Tokens are counted in units of 1/TokenScale token and time in ticks, so *)
(* that elapsed * refill_rate is a whole number of units.                  *)
(*                                                                         *)
(* Model of RateLimiter in the same file: the per-identity pair of         *)
(* buckets, the eviction sweep and check_rate_limit.  The middleware calls *)
(* it from the event loop, so a call is one action.                        *)
(*                                                                         *)
(* Model of LoginRateLimiter: the per-identity list of attempt times, the  *)
(* sweep, check_login_attempt, get_lockout_time and reset_attempts.  One   *)
(* tick is 450 s there.                                                    *)
(*                                                                         *)
(* Model of CircuitBreaker: call runs the wrapped function inside one      *)
(* step; call_async is split at its await, so other calls interleave with  *)
(* a call in flight.  One tick is 30 s there.                              *)
(***************************************************************************)
EXTENDS Integers, Sequences, FiniteSets, TLC

\* ---------------------------------------------------------------- bounds
MaxTasks == 2          \* number of add_task calls explored
WorkerTasks == 5       \* add_task calls explored when one worker's errors are followed
CallerTasks == 1       \* number of add_task calls explored next to get_result
MaxWorkers == 2        \* largest configured max_workers explored
MaxQueueSize == 2      \* largest configured max_queue_size explored
PollBlock == 200       \* one GetResultWake step stands for this many 0.2 s polls
MaxPoolSize == 1       \* largest configured pool_size explored
MaxOverflow == 1       \* largest configured max_overflow explored
PoolThreads == 2       \* threads that call get_connection
MaxConns == 3          \* connections pyodbc.connect can open in one run
MaxCalls == 3          \* get_connection calls explored
BucketCapacity == 3    \* TokenBucket capacity explored, in tokens
TokenScale == 2        \* units per token
MaxClock == 6          \* clock values explored, in ticks
MaxPerMinute == 2      \* largest requests_per_minute explored
MaxPerHour == 2        \* largest requests_per_hour explored
MaxIps == 2            \* client identities
MaxRequests == 4       \* check_rate_limit calls explored
MaxAttempts == 2       \* largest configured max_attempts explored
MaxThreshold == 2      \* largest configured failure_threshold explored
MaxCallers == 2        \* coroutines that use call_async
MaxBreakerCalls == 4   \* call and call_async invocations explored

\* ------------------------------------------------------ program constants
max_iterations == 500        \* _wait_for_completion safety net
max_cancellations == 100     \* shutdown drain limit
task_timeout == 60           \* queue_settings.task_timeout default (seconds)
backoff_threshold == 3       \* consecutive_errors >= 3 -> sleep before next task
retry_count == 2             \* get_connection(retry_count=2)

\* Python's None where a task id is expected (ids are 1, 2, ...)
None == 0
NoTask == None
Ids == 1..(IF MaxTasks > WorkerTasks THEN MaxTasks ELSE IF WorkerTasks > 3 THEN WorkerTasks ELSE 3)
AllWorkers == 0..MaxWorkers
\* timeout arguments of get_result, in seconds: omitted (None, written 0) and
\* the 120 the chat route passes
TimeoutInputs == {0, 120}

VARIABLES
  max_workers, max_queue_size,   \* configuration read by __init__
  queue,                         \* self.queue: FIFO of task ids
  processing,                    \* self.processing: task id -> Result record
  workers,                       \* self.workers: worker tasks created
  wstate, wtask,                 \* each worker's position and current task
  consecutive_errors,            \* each worker's local counter
  cancel_req,                    \* Task.cancel() requested, not yet delivered
  cleanup,                       \* position of the _cleanup_loop task
  cleanup_cancel,                \* cleanup_task.cancel() requested
  stats,                         \* self.stats counters
  nextId,                        \* the next fresh uuid4
  add_ret,                       \* value returned by the last add_task
  sd,                            \* position of shutdown()
  gr_pc, gr_id, gr_timeout, gr_iter, gr_ret,   \* the get_result caller
  gr_retry,                      \* history: the call repeats one that timed out
  accepted,                      \* history: ids returned by add_task
  call_log,                      \* history: <<worker, id>> per inference call
  inflight,                      \* history: inference calls in progress
  drained                        \* history: ids removed by shutdown's drain

\* ConnectionPool
VARIABLES
  pool_size, max_overflow,       \* configuration validated by __init__
  pool,                          \* self._pool: FIFO of idle connection ids
  current_size,                  \* self._current_size
  active_connections,            \* self._active_connections
  nextConn,                      \* the next connection pyodbc.connect opens
  closed,                        \* connections whose close() has run
  expired,                       \* connections older than the max lifetime
  broken,                        \* connections on which SELECT 1 fails
  th_pc,                         \* each thread's position in get_connection
  th_conn,                       \* each thread's local conn
  th_attempt,                    \* each thread's retry_attempt
  th_thrown,                     \* the with-body's exception entered the generator
  th_err,                        \* outcome of each thread's last finished call
  calls,                         \* get_connection calls made so far
  ca_pc                          \* position of close_all()

queueVars == << max_workers, max_queue_size, queue, processing, workers, wstate,
                wtask, consecutive_errors, cancel_req, cleanup, cleanup_cancel,
                stats, nextId, add_ret, sd, gr_pc, gr_id, gr_timeout, gr_iter,
                gr_ret, gr_retry, accepted, call_log, inflight, drained >>

poolVars == << pool_size, max_overflow, pool, current_size, active_connections,
               nextConn, closed, expired, broken, th_pc, th_conn, th_attempt,
               th_thrown, th_err, calls, ca_pc >>

\* TokenBucket
VARIABLES
  now,                           \* time.time()
  tokens,                        \* self.tokens, in units
  last_refill,                   \* self.last_refill
  tb_ret,                        \* value returned by the last consume
  tb_wait,                       \* value returned by the last get_wait_time
  tb_capped,                     \* history: the last refill was cut at capacity
  tb_op,                         \* history: the method called last
  tb_n,                          \* history: the argument of the last consume
  tb_burst,                      \* history: single-token consumes that succeeded
                                 \*   in a row at this instant, from a full bucket
  tb_drain,                      \* history: when such a burst emptied the bucket
                                 \*   (no consume has succeeded since), else -1
  tb_recovered                   \* history: the last consume was the first to
                                 \*   succeed after such a burst

bucketVars == << now, tokens, last_refill, tb_ret, tb_wait, tb_capped,
                 tb_op, tb_n, tb_burst, tb_drain, tb_recovered >>

\* RateLimiter
VARIABLES
  requests_per_minute, requests_per_hour,   \* configuration
  buckets,                       \* self.buckets: ip -> the pair of buckets
  last_cleanup,                  \* self.last_cleanup
  rl_ret,                        \* (allowed, retry_after) returned last
  rl_ip,                         \* history: the identity of the last call
  rl_by,                         \* history: the bucket that rejected it
  rl_seq,                        \* check_rate_limit calls made so far
  rl_ref,                        \* reference: the buckets of a limiter that
                                 \* never evicts
  rl_ref_ret,                    \* reference: its answer to the last call
  rl_back                        \* history: the last call's identity had been
                                 \* evicted since its call before

rateVars == << requests_per_minute, requests_per_hour, buckets, last_cleanup,
               rl_ret, rl_ip, rl_by, rl_seq, rl_ref, rl_ref_ret, rl_back >>

\* LoginRateLimiter
VARIABLES
  max_attempts,                  \* configuration
  attempts,                      \* self.attempts: ip -> list of attempt times
  login_last_cleanup,            \* self.last_cleanup
  lg_op,                         \* the method called last
  lg_ip,                         \* its client_ip
  lg_ret,                        \* check_login_attempt's (allowed, remaining)
  lg_lockout,                    \* get_lockout_time's return value, in ticks
  lg_was,                        \* history: the last call met its identity
                                 \* locked out
  lg_prev,                       \* history: the call before the last one
  lg_ref,                        \* reference: the attempts of a limiter that
                                 \* never sweeps
  lg_ref_ret                     \* reference: its answer to the last check

loginVars == << max_attempts, attempts, login_last_cleanup, lg_op, lg_ip,
                lg_ret, lg_lockout, lg_was, lg_prev, lg_ref, lg_ref_ret >>

\* CircuitBreaker
VARIABLES
  failure_threshold,             \* configuration
  failure_count,                 \* self.failure_count
  last_failure_time,             \* self.last_failure_time (NoTime: None)
  state,                         \* self.state
  cb_pc,                         \* per coroutine: "idle" or "running"
  cb_entry,                      \* per coroutine: self.state when the wrapped
                                 \* function was invoked
  cb_trial,                      \* per coroutine: its call moved the breaker
                                 \* from open to half_open
  cb_op,                         \* history: what the last step did
  cb_who,                        \* history: its coroutine (0: a call())
  cb_was_trial,                  \* history: the call that ended was a trial
  cb_consec,                     \* history: failures since the last success
  cb_invoked,                    \* history: invocations of the function
  cb_calls                       \* calls made so far

breakerVars == << failure_threshold, failure_count, last_failure_time, state,
                  cb_pc, cb_entry, cb_trial, cb_op, cb_who, cb_was_trial,
                  cb_consec, cb_invoked, cb_calls >>

vars == << queueVars, poolVars, bucketVars, rateVars, loginVars, breakerVars >>

\* what an action of one component leaves alone
nonQueueVars == << poolVars, bucketVars, rateVars, loginVars, breakerVars >>
nonPoolVars == << queueVars, bucketVars, rateVars, loginVars, breakerVars >>
nonBucketVars == << queueVars, poolVars, rateVars, loginVars, breakerVars >>
\* the TokenBucket model's variables but the clock
bucketOnly == << tokens, last_refill, tb_ret, tb_wait, tb_capped, tb_op, tb_n,
                 tb_burst, tb_drain, tb_recovered >>
nonRateVars == << queueVars, poolVars, bucketOnly, loginVars, breakerVars >>
nonLoginVars == << queueVars, poolVars, bucketOnly, rateVars, breakerVars >>
nonBreakerVars == << queueVars, poolVars, bucketOnly, rateVars, loginVars >>

cfgVars == << max_workers, max_queue_size >>
workerVars == << wstate, wtask, consecutive_errors, cancel_req >>
cleanupVars == << cleanup, cleanup_cancel >>
callerVars == << gr_pc, gr_id, gr_timeout, gr_iter, gr_ret, gr_retry >>
histVars == << accepted, call_log, inflight, drained >>

\* ----------------------------------------------------------- pure helpers
Min(a, b) == IF a < b THEN a ELSE b
Max(a, b) == IF a < b THEN b ELSE a
Range(q) == { q[i] : i \in 1..Len(q) }

Terminal == {"completed", "failed", "cancelled"}

\* asyncio.Queue.full() for Queue(maxsize): maxsize <= 0 means unbounded
QueueFullOffByOne(q, maxsize) == IF maxsize <= 0 THEN FALSE ELSE Len(q) > maxsize
QueueFull(q, maxsize) == IF maxsize <= 0 THEN FALSE ELSE Len(q) >= maxsize

\* range(self.max_workers)
WorkerIdsOffByOne(n) == 0..n
WorkerIds(n) == 0..(n - 1)

\* dict assignment self.processing[k] = v
Put(p, k, v) == [ x \in (DOMAIN p) \cup {k} |-> IF x = k THEN v ELSE p[x] ]
\* del self.processing[k] for every k in ks
Del(p, ks) == [ x \in (DOMAIN p) \ ks |-> p[x] ]

\* The Result records the code writes.  A key the code leaves out of the
\* dict is "absent"; Python's None is "None"; expires_at is "future" until
\* the wall clock has moved past it.
QueuedEntry ==
  [status |-> "queued", response |-> "None", error |-> "absent", expires |-> "future"]
CompletedEntry ==
  [status |-> "completed", response |-> "value", error |-> "absent", expires |-> "future"]
FailedEntry ==
  [status |-> "failed", response |-> "None", error |-> "exception", expires |-> "future"]
WorkerCancelledEntry ==
  [status |-> "cancelled", response |-> "None", error |-> "Task cancelled", expires |-> "future"]
ShutdownCancelledEntry ==
  [status |-> "cancelled", response |-> "absent", error |-> "Server shutdown", expires |-> "absent"]

\* seconds -> GetResultWake steps (each step is PollBlock sleeps of 0.2 s)
ToSteps(seconds) == (seconds * 5) \div PollBlock
MaxWaitSteps == max_iterations \div PollBlock
\* timeout = timeout or self.task_timeout
EffectiveTimeout(t) == IF t = 0 THEN task_timeout ELSE t

StatusIn(p, id) == IF id \in DOMAIN p THEN p[id].status ELSE "absent"
StatusOf(id) == StatusIn(processing, id)

\* ------------------------------------------------------------------ Init
Threads == 1..PoolThreads
ConnIds == 1..MaxConns
NoConn == None

\* DatabaseManager.pool before a ConnectionPool is constructed
PoolAbsent ==
  /\ pool_size = 0
  /\ max_overflow = 0
  /\ pool = << >>
  /\ current_size = 0
  /\ active_connections = 0
  /\ nextConn = 1
  /\ closed = {}
  /\ expired = {}
  /\ broken = {}
  /\ th_pc = [t \in Threads |-> "idle"]
  /\ th_conn = [t \in Threads |-> NoConn]
  /\ th_attempt = [t \in Threads |-> 0]
  /\ th_thrown = [t \in Threads |-> FALSE]
  /\ th_err = [t \in Threads |-> "none"]
  /\ calls = 0
  /\ ca_pc = "idle"

\* before a TokenBucket is constructed
BucketAbsent ==
  /\ now = 0
  /\ tokens = 0
  /\ last_refill = 0
  /\ tb_ret = "none"
  /\ tb_wait = << 0, 1 >>
  /\ tb_capped = FALSE
  /\ tb_op = "none"
  /\ tb_n = 0
  /\ tb_burst = 0
  /\ tb_drain = -1
  /\ tb_recovered = FALSE

\* _rate_limiter = None: no RateLimiter constructed
RateAbsent ==
  /\ requests_per_minute = 0
  /\ requests_per_hour = 0
  /\ buckets = << >>
  /\ last_cleanup = 0
  /\ rl_ret = << TRUE, << 0, 1 >> >>
  /\ rl_ip = 0
  /\ rl_by = "none"
  /\ rl_seq = 0
  /\ rl_ref = << >>
  /\ rl_ref_ret = TRUE
  /\ rl_back = FALSE

\* _login_rate_limiter = None: no LoginRateLimiter constructed
LoginAbsent ==
  /\ max_attempts = 0
  /\ attempts = << >>
  /\ login_last_cleanup = 0
  /\ lg_op = "none"
  /\ lg_ip = 0
  /\ lg_ret = << TRUE, 0 >>
  /\ lg_lockout = 0
  /\ lg_was = FALSE
  /\ lg_prev = << "none", 0, FALSE >>
  /\ lg_ref = << >>
  /\ lg_ref_ret = TRUE

Callers == 1..MaxCallers
NoTime == -1

\* hf_circuit_breaker = None: no CircuitBreaker constructed
BreakerAbsent ==
  /\ failure_threshold = 0
  /\ failure_count = 0
  /\ last_failure_time = NoTime
  /\ state = "closed"
  /\ cb_pc = [c \in Callers |-> "idle"]
  /\ cb_entry = [c \in Callers |-> "none"]
  /\ cb_trial = [c \in Callers |-> FALSE]
  /\ cb_op = "none"
  /\ cb_who = 0
  /\ cb_was_trial = FALSE
  /\ cb_consec = 0
  /\ cb_invoked = 0
  /\ cb_calls = 0

QueueInit ==
  /\ max_workers \in 1..MaxWorkers
  /\ max_queue_size \in 1..MaxQueueSize
  /\ queue = << >>
  /\ processing = << >>
  /\ workers = {}
  /\ wstate = [w \in AllWorkers |-> "none"]
  /\ wtask = [w \in AllWorkers |-> NoTask]
  /\ consecutive_errors = [w \in AllWorkers |-> 0]
  /\ cancel_req = [w \in AllWorkers |-> FALSE]
  /\ cleanup = "none"
  /\ cleanup_cancel = FALSE
  /\ stats = [total_processed |-> 0, total_queued |-> 0,
              total_rejected |-> 0, active_workers |-> 0]
  /\ nextId = 1
  /\ add_ret = None
  /\ sd = "idle"
  /\ gr_pc = "idle"
  /\ gr_id = NoTask
  /\ gr_timeout = 0
  /\ gr_iter = 0
  /\ gr_ret = "none"
  /\ gr_retry = FALSE
  /\ accepted = {}
  /\ call_log = << >>
  /\ inflight = {}
  /\ drained = {}

Init ==
  /\ QueueInit
  /\ PoolAbsent
  /\ BucketAbsent
  /\ RateAbsent
  /\ LoginAbsent
  /\ BreakerAbsent

\* -------------------------------------------------------------- add_task
\* add_task never suspends: the uuid, the 'queued' Result, put_nowait and the
\* counters run in one piece.  The Result is written before put_nowait, so
\* it is also written when put_nowait raises QueueFull.
AddTaskUpTo(n) ==
  /\ nextId <= n
  /\ LET task_id == nextId IN
       /\ nextId' = nextId + 1
       /\ processing' = Put(processing, task_id, QueuedEntry)
       /\ IF QueueFull(queue, max_queue_size)
          THEN /\ queue' = queue
               /\ stats' = [stats EXCEPT !.total_rejected = @ + 1]
               /\ add_ret' = None
               /\ accepted' = accepted
          ELSE /\ queue' = Append(queue, task_id)
               /\ stats' = [stats EXCEPT !.total_queued = @ + 1]
               /\ add_ret' = task_id
               /\ accepted' = accepted \cup {task_id}
  /\ UNCHANGED << nonQueueVars, cfgVars, workers, workerVars, cleanupVars, sd, callerVars,
                  call_log, inflight, drained >>

AddTask == AddTaskUpTo(MaxTasks)

\* --------------------------------------------------------- start_workers
\* Called once, by the application's lifespan start-up.
StartWorkers ==
  /\ workers = {}
  /\ cleanup = "none"
  /\ sd = "idle"
  /\ workers' = WorkerIds(max_workers)
  /\ wstate' = [w \in AllWorkers |->
                  IF w \in WorkerIds(max_workers) THEN "created" ELSE wstate[w]]
  /\ cleanup' = "created"
  /\ UNCHANGED << nonQueueVars, cfgVars, queue, processing, wtask, consecutive_errors,
                  cancel_req, cleanup_cancel, stats, nextId, add_ret, sd,
                  callerVars, histVars >>

\* ---------------------------------------------------------------- _worker
\* Top of the while loop: task = await self.queue.get().  With a task in the
\* queue get() returns at once and the worker goes on to the inference call;
\* with an empty queue the worker suspends in get().
TakeNextPeek(w) ==
  IF queue # << >>
  THEN /\ queue' = queue
       /\ wstate' = [wstate EXCEPT ![w] = "calling"]
       /\ wtask' = [wtask EXCEPT ![w] = Head(queue)]
       /\ call_log' = Append(call_log, << w, Head(queue) >>)
       /\ inflight' = { c \in inflight : c[1] # w \/ c[2] # wtask[w] }
                        \cup { << w, Head(queue) >> }
  ELSE /\ queue' = queue
       /\ wstate' = [wstate EXCEPT ![w] = "waiting"]
       /\ wtask' = [wtask EXCEPT ![w] = NoTask]
       /\ call_log' = call_log
       /\ inflight' = { c \in inflight : c[1] # w \/ c[2] # wtask[w] }
TakeNext(w) ==
  IF queue # << >>
  THEN /\ queue' = Tail(queue)
       /\ wstate' = [wstate EXCEPT ![w] = "calling"]
       /\ wtask' = [wtask EXCEPT ![w] = Head(queue)]
       /\ call_log' = Append(call_log, << w, Head(queue) >>)
       /\ inflight' = { c \in inflight : c[1] # w \/ c[2] # wtask[w] }
                        \cup { << w, Head(queue) >> }
  ELSE /\ queue' = queue
       /\ wstate' = [wstate EXCEPT ![w] = "waiting"]
       /\ wtask' = [wtask EXCEPT ![w] = NoTask]
       /\ call_log' = call_log
       /\ inflight' = { c \in inflight : c[1] # w \/ c[2] # wtask[w] }

\* First run of the coroutine: active_workers += 1, then the loop.
WorkerStart(w) ==
  /\ wstate[w] = "created"
  /\ ~cancel_req[w]
  /\ stats' = [stats EXCEPT !.active_workers = @ + 1]
  /\ TakeNext(w)
  /\ UNCHANGED << nonQueueVars, cfgVars, processing, workers, consecutive_errors, cancel_req,
                  cleanupVars, nextId, add_ret, sd, callerVars, accepted,
                  drained >>

\* The event loop resumes a suspended worker: one suspended in queue.get()
\* once the queue holds a task, one in its back-off sleep once the sleep is
\* over (then the finally clause, task_done, and the next loop iteration).
WorkerResume(w) ==
  /\ wstate[w] \in {"waiting", "backoff", "error_backoff"}
  /\ ~cancel_req[w]
  /\ wstate[w] = "waiting" => queue # << >>
  /\ TakeNext(w)
  /\ UNCHANGED << nonQueueVars, cfgVars, processing, workers, consecutive_errors, cancel_req,
                  cleanupVars, stats, nextId, add_ret, sd, callerVars, accepted,
                  drained >>

\* call_ai_hybrid returns (a text, or None when the model gave nothing; either
\* way the 'response' key is set, which is all that is read of it): the
\* Result becomes 'completed', the error counter is reset, task_done, loop.
WorkerCallReturnsOnce(w) ==
  /\ wstate[w] = "calling"
  /\ ~cancel_req[w]
  /\ processing' = Put(processing, wtask[w], CompletedEntry)
  /\ stats' = [stats EXCEPT !.total_processed = @ + 1, !.active_workers = @ - 1]
  /\ consecutive_errors' = [consecutive_errors EXCEPT ![w] = 0]
  /\ wstate' = [wstate EXCEPT ![w] = "stopped"]
  /\ wtask' = [wtask EXCEPT ![w] = NoTask]
  /\ inflight' = inflight \ { << w, wtask[w] >> }
  /\ UNCHANGED << nonQueueVars, cfgVars, queue, workers, cancel_req, cleanupVars, nextId,
                  add_ret, sd, callerVars, accepted, call_log, drained >>
WorkerCallReturns(w) ==
  /\ wstate[w] = "calling"
  /\ ~cancel_req[w]
  /\ processing' = Put(processing, wtask[w], CompletedEntry)
  /\ stats' = [stats EXCEPT !.total_processed = @ + 1]
  /\ consecutive_errors' = [consecutive_errors EXCEPT ![w] = 0]
  /\ TakeNext(w)
  /\ UNCHANGED << nonQueueVars, cfgVars, workers, cancel_req, cleanupVars, nextId, add_ret,
                  sd, callerVars, accepted, drained >>

\* call_ai_hybrid raises: the Result becomes 'failed'; from the third
\* consecutive failure on the worker sleeps before the finally clause and
\* the next loop iteration.
WorkerCallRaisesExits(w) ==
  /\ wstate[w] = "calling"
  /\ ~cancel_req[w]
  /\ processing' = Put(processing, wtask[w], FailedEntry)
  /\ consecutive_errors' = [consecutive_errors EXCEPT ![w] = @ + 1]
  /\ wstate' = [wstate EXCEPT ![w] = "stopped"]
  /\ wtask' = [wtask EXCEPT ![w] = NoTask]
  /\ inflight' = inflight \ { << w, wtask[w] >> }
  /\ stats' = [stats EXCEPT !.active_workers = @ - 1]
  /\ UNCHANGED << nonQueueVars, cfgVars, queue, workers, cancel_req, cleanupVars, nextId,
                  add_ret, sd, callerVars, accepted, call_log, drained >>
WorkerCallRaises(w) ==
  /\ wstate[w] = "calling"
  /\ ~cancel_req[w]
  /\ processing' = Put(processing, wtask[w], FailedEntry)
  /\ consecutive_errors' = [consecutive_errors EXCEPT ![w] = @ + 1]
  /\ IF consecutive_errors[w] + 1 >= backoff_threshold
     THEN /\ wstate' = [wstate EXCEPT ![w] = "backoff"]
          /\ inflight' = inflight \ { << w, wtask[w] >> }
          /\ UNCHANGED << queue, wtask, call_log >>
     ELSE TakeNext(w)
  /\ UNCHANGED << nonQueueVars, cfgVars, workers, cancel_req, cleanupVars, stats, nextId,
                  add_ret, sd, callerVars, accepted, drained >>

\* An exception other than CancelledError reaches the outer handler of the
\* loop (raised by queue.get() itself, outside the inner try): the counter
\* goes up by one; at max_consecutive_errors the worker breaks out of the loop
\* and active_workers -= 1, below it the worker sleeps min(2 * count, 10) s and
\* loops.  No task was taken, so no Result is written.
max_consecutive_errors == 5
\* a worker that gives up at its first internal error
GivesUpAtOnce(n) == n >= 1
\* if consecutive_errors >= max_consecutive_errors: break
GivesUp(n) == n >= max_consecutive_errors
WorkerGetRaises(w) ==
  /\ wstate[w] = "waiting"
  /\ ~cancel_req[w]
  /\ consecutive_errors' = [consecutive_errors EXCEPT ![w] = @ + 1]
  /\ IF GivesUp(consecutive_errors[w] + 1)
     THEN /\ wstate' = [wstate EXCEPT ![w] = "stopped"]
          /\ stats' = [stats EXCEPT !.active_workers = @ - 1]
     ELSE /\ wstate' = [wstate EXCEPT ![w] = "error_backoff"]
          /\ stats' = stats
  /\ UNCHANGED << nonQueueVars, cfgVars, queue, processing, workers, wtask, cancel_req,
                  cleanupVars, nextId, add_ret, sd, callerVars, histVars >>

\* CancelledError is delivered at the await the worker is suspended in:
\*   never run      -> the coroutine body is not executed at all;
\*   queue.get()    -> outer handler: break, active_workers -= 1;
\*   call_ai_hybrid -> inner handler writes 'cancelled' if the id is still in
\*                     the table, re-raises; outer handler: break;
\*   back-off sleep -> raised inside the inner except clause, so only the
\*                     finally clause and the outer handler run;
\*   outer sleep    -> raised inside the outer except clause, which no sibling
\*                     clause catches: the coroutine ends with the
\*                     CancelledError and active_workers is left as it was.
WorkerCancelled(w) ==
  /\ cancel_req[w]
  /\ wstate[w] \in {"created", "waiting", "calling", "backoff", "error_backoff"}
  /\ cancel_req' = [cancel_req EXCEPT ![w] = FALSE]
  /\ wstate' = [wstate EXCEPT ![w] = IF wstate[w] \in {"created", "error_backoff"}
                                     THEN "cancelled" ELSE "stopped"]
  /\ stats' = IF wstate[w] \in {"created", "error_backoff"} THEN stats
              ELSE [stats EXCEPT !.active_workers = @ - 1]
  /\ processing' = IF wstate[w] = "calling" /\ wtask[w] \in DOMAIN processing
                   THEN Put(processing, wtask[w], WorkerCancelledEntry)
                   ELSE processing
  /\ inflight' = inflight \ { << w, wtask[w] >> }
  /\ wtask' = [wtask EXCEPT ![w] = NoTask]
  /\ UNCHANGED << nonQueueVars, cfgVars, queue, workers, consecutive_errors, cleanupVars,
                  nextId, add_ret, sd, callerVars, accepted, call_log, drained >>

\* ---------------------------------------------------------- _cleanup_loop
\* The wall clock moves past a Result's expires_at (written as now + 300 s).
ResultExpires(id) ==
  /\ id \in DOMAIN processing
  /\ processing[id].expires = "future"
  /\ processing' = [processing EXCEPT ![id].expires = "past"]
  /\ UNCHANGED << nonQueueVars, cfgVars, queue, workers, workerVars, cleanupVars, stats,
                  nextId, add_ret, sd, callerVars, histVars >>

\* a sweep that takes every entry for expired
ExpiredAll(p) == DOMAIN p
\* info.get("expires_at") and expires_at < now
Expired(p) == { id \in DOMAIN p : p[id].expires = "past" }

CleanupStart ==
  /\ cleanup = "created"
  /\ ~cleanup_cancel
  /\ cleanup' = "sleeping"
  /\ UNCHANGED << nonQueueVars, cfgVars, queue, processing, workers, workerVars,
                  cleanup_cancel, stats, nextId, add_ret, sd, callerVars,
                  histVars >>

\* The sleep ends: one sweep, then the next sleep.
CleanupSweep ==
  /\ cleanup = "sleeping"
  /\ ~cleanup_cancel
  /\ processing' = Del(processing, Expired(processing))
  /\ UNCHANGED << nonQueueVars, cfgVars, queue, workers, workerVars, cleanupVars, stats,
                  nextId, add_ret, sd, callerVars, histVars >>

CleanupCancelled ==
  /\ cleanup_cancel
  /\ cleanup \in {"created", "sleeping"}
  /\ cleanup' = "stopped"
  /\ cleanup_cancel' = FALSE
  /\ UNCHANGED << nonQueueVars, cfgVars, queue, processing, workers, workerVars, stats,
                  nextId, add_ret, sd, callerVars, histVars >>

\* ------------------------------------------------------------- get_result
\* What one pass of _wait_for_completion's loop body returns for task id:
\* "sleep" when it reaches asyncio.sleep, "KeyError" when the Result has no
\* 'response' key.
PollOnce(p, id) ==
  IF id \notin DOMAIN p THEN "not_found"
  ELSE IF p[id].status \in Terminal
       THEN IF p[id].response = "absent" THEN "KeyError" ELSE p[id].status
       ELSE "sleep"

\* The routes call get_result with an identifier add_task returned.  The
\* call runs through the membership test and the first pass of the loop.
GetResultCall(id, t) ==
  /\ gr_pc = "idle"
  /\ id \in accepted
  /\ gr_id' = id
  /\ gr_iter' = 0
  /\ gr_retry' = (gr_ret = "timeout" /\ gr_id = id)
  /\ LET r == PollOnce(processing, id) IN
       IF r = "sleep"
       THEN gr_pc' = "sleeping" /\ gr_ret' = "none"
            /\ gr_timeout' = EffectiveTimeout(t)
       ELSE gr_pc' = "idle" /\ gr_ret' = r /\ gr_timeout' = 0
  /\ UNCHANGED << nonQueueVars, cfgVars, queue, processing, workers, workerVars, cleanupVars,
                  stats, nextId, add_ret, sd, accepted, call_log, inflight,
                  drained >>

\* PollBlock further sleeps of 0.2 s have gone by.  A change of the Result
\* in that time was seen by one of the passes of the loop; otherwise
\* asyncio.wait_for times out if the caller's timeout has elapsed, the loop
\* ends if iterations has reached max_iterations, and the caller sleeps on
\* if neither.  The locals timeout and iterations go away on return.
GetResultWakeCancelling ==
  /\ gr_pc = "sleeping"
  /\ LET seen == PollOnce(processing, gr_id)
         r == IF seen # "sleep" THEN seen
              ELSE IF gr_iter + 1 >= ToSteps(gr_timeout) THEN "timeout"
              ELSE IF gr_iter + 1 >= MaxWaitSteps THEN "timeout"
              ELSE "sleep"
     IN /\ IF r = "sleep"
           THEN /\ gr_pc' = "sleeping" /\ gr_ret' = "none"
                /\ gr_iter' = gr_iter + 1 /\ gr_timeout' = gr_timeout
           ELSE /\ gr_pc' = "idle" /\ gr_ret' = r
                /\ gr_iter' = 0 /\ gr_timeout' = 0
        /\ processing' = IF r = "timeout" THEN Del(processing, {gr_id}) ELSE processing
  /\ UNCHANGED << nonQueueVars, cfgVars, queue, workers, workerVars, cleanupVars,
                  stats, nextId, add_ret, sd, gr_id, gr_retry, accepted,
                  call_log, inflight, drained >>
GetResultWake ==
  /\ gr_pc = "sleeping"
  /\ LET seen == PollOnce(processing, gr_id)
         r == IF seen # "sleep" THEN seen
              ELSE IF gr_iter + 1 >= ToSteps(gr_timeout) THEN "timeout"
              ELSE IF gr_iter + 1 >= MaxWaitSteps THEN "timeout"
              ELSE "sleep"
     IN IF r = "sleep"
        THEN /\ gr_pc' = "sleeping" /\ gr_ret' = "none"
             /\ gr_iter' = gr_iter + 1 /\ gr_timeout' = gr_timeout
        ELSE /\ gr_pc' = "idle" /\ gr_ret' = r
             /\ gr_iter' = 0 /\ gr_timeout' = 0
  /\ UNCHANGED << nonQueueVars, cfgVars, queue, processing, workers, workerVars, cleanupVars,
                  stats, nextId, add_ret, sd, gr_id, gr_retry, accepted,
                  call_log, inflight, drained >>

\* --------------------------------------------------------------- shutdown
\* The drain loop: get_nowait up to max_cancellations tasks and overwrite the
\* Result of each one that is still in the table.
DrainCount(q) == Min(Len(q), max_cancellations)
DrainedIds(q) == { q[i] : i \in 1..DrainCount(q) }
DrainQueue(q) == SubSeq(q, DrainCount(q) + 1, Len(q))
DrainResultsAll(p, q) ==
  [ id \in DOMAIN p |-> ShutdownCancelledEntry ]
DrainResults(p, q) ==
  [ id \in DOMAIN p |-> IF id \in DrainedIds(q) THEN ShutdownCancelledEntry ELSE p[id] ]

Drain ==
  /\ queue' = DrainQueue(queue)
  /\ processing' = DrainResults(processing, queue)
  /\ drained' = drained \cup DrainedIds(queue)
  /\ sd' = "done"

\* shutdown() up to its first await.  Without a cleanup task (start_workers
\* never ran) there are no workers either and shutdown runs to its end.
ShutdownBegin ==
  /\ sd = "idle"
  /\ IF cleanup = "none"
     THEN /\ Drain
          /\ UNCHANGED cleanup_cancel
     ELSE /\ cleanup_cancel' = (cleanup \in {"created", "sleeping"})
          /\ sd' = "wait_cleanup"
          /\ UNCHANGED << queue, processing, drained >>
  /\ UNCHANGED << nonQueueVars, cfgVars, workers, workerVars, cleanup, stats, nextId,
                  add_ret, callerVars, accepted, call_log, inflight >>

\* The cleanup task has ended: worker.cancel() for every worker, then
\* await asyncio.wait(self.workers).
ShutdownCancelWorkers ==
  /\ sd = "wait_cleanup"
  /\ cleanup = "stopped"
  /\ cancel_req' = [w \in AllWorkers |->
                      w \in workers /\ wstate[w] \notin {"stopped", "cancelled"}]
  /\ sd' = "wait_workers"
  /\ UNCHANGED << nonQueueVars, cfgVars, queue, processing, workers, wstate, wtask,
                  consecutive_errors, cleanupVars, stats, nextId, add_ret,
                  callerVars, histVars >>

\* Every worker task has ended: the drain loop, to the end of shutdown().
ShutdownDrain ==
  /\ sd = "wait_workers"
  /\ \A w \in workers : wstate[w] \in {"stopped", "cancelled"}
  /\ Drain
  /\ UNCHANGED << nonQueueVars, cfgVars, workers, workerVars, cleanupVars, stats, nextId,
                  add_ret, callerVars, accepted, call_log, inflight >>

\* ------------------------------------------------------------------ Spec
\* The service itself: submissions, workers, the expiry sweep and shutdown.
Service ==
  \/ StartWorkers
  \/ \E w \in AllWorkers : WorkerStart(w)
  \/ \E w \in AllWorkers : WorkerResume(w)
  \/ \E w \in AllWorkers : WorkerCallReturns(w)
  \/ \E w \in AllWorkers : WorkerCallRaises(w)
  \/ \E w \in AllWorkers : WorkerCancelled(w)
  \/ \E id \in Ids : ResultExpires(id)
  \/ CleanupStart
  \/ CleanupSweep
  \/ CleanupCancelled
  \/ ShutdownBegin
  \/ ShutdownCancelWorkers
  \/ ShutdownDrain

Next ==
  \/ AddTask
  \/ Service

Spec == Init /\ [][Next]_vars

\* The service together with a caller of get_result.
CallerAddTask == AddTaskUpTo(CallerTasks)

CallerNext ==
  \/ CallerAddTask
  \/ Service
  \/ \E id \in Ids, t \in TimeoutInputs : GetResultCall(id, t)
  \/ GetResultWake

CallerSpec == Init /\ [][CallerNext]_vars

\* The service while it is running: start_workers has been called by the
\* lifespan start-up and shutdown has not.  The wall clock moves on and the
\* event loop runs the cleanup task when its sleep is over.
RunningNext ==
  \/ AddTask
  \/ StartWorkers
  \/ \E w \in AllWorkers : WorkerStart(w)
  \/ \E w \in AllWorkers : WorkerResume(w)
  \/ \E w \in AllWorkers : WorkerCallReturns(w)
  \/ \E w \in AllWorkers : WorkerCallRaises(w)
  \/ \E id \in Ids : ResultExpires(id)
  \/ CleanupStart
  \/ CleanupSweep

RunningSpec ==
  /\ Init
  /\ [][RunningNext]_vars
  /\ WF_vars(CleanupStart)
  /\ WF_vars(CleanupSweep)
  /\ \A id \in Ids : WF_vars(ResultExpires(id))

\* The end-to-end scenario: one worker, a queue of capacity 2, three
\* submissions, inference calls that succeed, no shutdown.
ScenarioInit ==
  /\ Init
  /\ max_workers = 1
  /\ max_queue_size = 2

ScenarioAddTask == AddTaskUpTo(3)

ScenarioNext ==
  \/ ScenarioAddTask
  \/ StartWorkers
  \/ \E w \in AllWorkers : WorkerStart(w)
  \/ \E w \in AllWorkers : WorkerResume(w)
  \/ \E w \in AllWorkers : WorkerCallReturns(w)
  \/ \E id \in Ids : ResultExpires(id)
  \/ CleanupStart
  \/ CleanupSweep

\* The lifespan start-up calls start_workers; the event loop runs every
\* ready coroutine; the calls of the scenario return.
ScenarioSpec ==
  /\ ScenarioInit
  /\ [][ScenarioNext]_vars
  /\ WF_vars(StartWorkers)
  /\ \A w \in AllWorkers :
       /\ WF_vars(WorkerStart(w))
       /\ WF_vars(WorkerResume(w))
       /\ WF_vars(WorkerCallReturns(w))

\* One worker followed through task failures, internal errors of its loop and
\* shutdown: a service of a single worker, results kept in the table.
WorkerInit ==
  /\ Init
  /\ max_workers = 1

WorkerAddTask == AddTaskUpTo(WorkerTasks)

WorkerNext ==
  \/ WorkerAddTask
  \/ StartWorkers
  \/ \E w \in AllWorkers : WorkerStart(w)
  \/ \E w \in AllWorkers : WorkerResume(w)
  \/ \E w \in AllWorkers : WorkerCallReturns(w)
  \/ \E w \in AllWorkers : WorkerCallRaises(w)
  \/ \E w \in AllWorkers : WorkerGetRaises(w)
  \/ \E w \in AllWorkers : WorkerCancelled(w)
  \/ CleanupStart
  \/ CleanupCancelled
  \/ ShutdownBegin
  \/ ShutdownCancelWorkers
  \/ ShutdownDrain

WorkerSpec == WorkerInit /\ [][WorkerNext]_vars

TypeOK ==
  /\ queue \in Seq(Ids)
  /\ DOMAIN processing \subseteq Ids
  /\ workers \subseteq AllWorkers
  /\ sd \in {"idle", "wait_cleanup", "wait_workers", "done"}


\* ========================================================= ConnectionPool
\* Several threads call get_connection; the counters are updated under
\* self._lock and the idle queue is a thread-safe queue.Queue, so an action
\* is a piece of one thread's code between two blocking operations
\* (self._pool.get, pyodbc.connect, time.sleep, the caller's with-body).

Cap == pool_size + max_overflow

\* The state __init__ leaves: _initialize_pool opens pool_size connections,
\* each of which can fail, and puts the ones it got into the idle queue.
PoolInit ==
  /\ QueueInit
  /\ max_workers = 1
  /\ max_queue_size = 1
  /\ BucketAbsent
  /\ RateAbsent
  /\ LoginAbsent
  /\ BreakerAbsent
  /\ pool_size \in 1..MaxPoolSize
  /\ max_overflow \in 0..MaxOverflow
  /\ \E k \in 0..MaxPoolSize :
       /\ k <= pool_size
       /\ pool = [i \in 1..k |-> i]
       /\ current_size = k
       /\ nextConn = k + 1
  /\ active_connections = 0
  /\ closed = {}
  /\ expired = {}
  /\ broken = {}
  /\ th_pc = [t \in Threads |-> "idle"]
  /\ th_conn = [t \in Threads |-> NoConn]
  /\ th_attempt = [t \in Threads |-> 0]
  /\ th_thrown = [t \in Threads |-> FALSE]
  /\ th_err = [t \in Threads |-> "none"]
  /\ calls = 0
  /\ ca_pc = "idle"

\* ConnectionWrapper.is_expired
is_expired(c) == c \in expired

\* _validate_connection: not expired, and SELECT 1 succeeds
ValidateIgnoringAge(c) == c \notin closed /\ c \notin broken
Validate(c) == ~is_expired(c) /\ c \notin closed /\ c \notin broken

\* the environment: a connection passes the maximum lifetime / stops
\* answering queries.  _validate_connection tests the age first, so a
\* connection that is both too old and dead behaves like one that is too old;
\* one cause per connection is enough.
ConnExpires(c) ==
  /\ c < nextConn
  /\ c \notin closed
  /\ c \notin expired
  /\ c \notin broken
  /\ expired' = expired \cup {c}
  /\ UNCHANGED << nonPoolVars, pool_size, max_overflow, pool, current_size,
                  active_connections, nextConn, closed, broken, th_pc, th_conn,
                  th_attempt, th_thrown, th_err, calls, ca_pc >>

ConnBreaks(c) ==
  /\ c < nextConn
  /\ c \notin closed
  /\ c \notin broken
  /\ c \notin expired
  /\ broken' = broken \cup {c}
  /\ UNCHANGED << nonPoolVars, pool_size, max_overflow, pool, current_size,
                  active_connections, nextConn, closed, expired, th_pc, th_conn,
                  th_attempt, th_thrown, th_err, calls, ca_pc >>

\* with pool.get_connection() as conn: the generator starts its retry loop
GetConnection(t) ==
  /\ th_pc[t] = "idle"
  /\ calls < MaxCalls
  /\ calls' = calls + 1
  /\ th_pc' = [th_pc EXCEPT ![t] = "getting"]
  /\ th_conn' = [th_conn EXCEPT ![t] = NoConn]
  /\ th_attempt' = [th_attempt EXCEPT ![t] = 0]
  /\ th_thrown' = [th_thrown EXCEPT ![t] = FALSE]
  /\ th_err' = [th_err EXCEPT ![t] = "none"]
  /\ UNCHANGED << nonPoolVars, pool_size, max_overflow, pool, current_size,
                  active_connections, nextConn, closed, expired, broken, ca_pc >>

\* Lines 316-324: count the connection as active and yield it.  When the
\* with-body's exception was thrown into the generator before, the caller's
\* __exit__ answers the second yield with RuntimeError("generator didn't
\* stop after throw()") and the generator stays suspended with the
\* connection.
Yield(t, c) ==
  /\ active_connections' = active_connections + 1
  /\ th_conn' = [th_conn EXCEPT ![t] = c]
  /\ IF th_thrown[t]
     THEN /\ th_pc' = [th_pc EXCEPT ![t] = "suspended"]
          /\ th_err' = [th_err EXCEPT ![t] = "RuntimeError"]
     ELSE /\ th_pc' = [th_pc EXCEPT ![t] = "holding"]
          /\ th_err' = th_err
  /\ UNCHANGED << th_attempt, th_thrown >>

\* Lines 333-350: the except clause of the retry loop for an exception e
\* raised while no connection is held: sleep and retry, or raise e after
\* the last attempt.
RetryOrRaiseAlways(t, e) ==
  /\ th_pc' = [th_pc EXCEPT ![t] = "backoff"]
  /\ th_err' = th_err
  /\ th_conn' = [th_conn EXCEPT ![t] = NoConn]
  /\ UNCHANGED << th_attempt, th_thrown >>
RetryOrRaise(t, e) ==
  /\ IF th_attempt[t] < retry_count
     THEN /\ th_pc' = [th_pc EXCEPT ![t] = "backoff"]
          /\ th_err' = th_err
     ELSE /\ th_pc' = [th_pc EXCEPT ![t] = "idle"]
          /\ th_err' = [th_err EXCEPT ![t] = e]
  /\ th_conn' = [th_conn EXCEPT ![t] = NoConn]
  /\ UNCHANGED << th_attempt, th_thrown >>

\* The try block ended with conn = None and without an exception: the for
\* loop goes to its next attempt at once; after the last attempt the
\* generator returns without a yield, which contextlib reports as
\* RuntimeError("generator didn't yield") in __enter__ and which makes
\* __exit__ swallow the with-body's exception.
NextAttemptOrReturn(t) ==
  /\ IF th_attempt[t] < retry_count
     THEN /\ th_attempt' = [th_attempt EXCEPT ![t] = @ + 1]
          /\ th_pc' = th_pc
          /\ th_err' = th_err
     ELSE /\ th_attempt' = th_attempt
          /\ th_pc' = [th_pc EXCEPT ![t] = "idle"]
          /\ th_err' = [th_err EXCEPT ![t] =
                          IF th_thrown[t] THEN "suppressed" ELSE "RuntimeError"]
  /\ th_conn' = [th_conn EXCEPT ![t] = NoConn]
  /\ UNCHANGED th_thrown

\* error kinds of the two acquisition failures
ExhaustedError == "ConnectionPoolExhausted"
CreateErrorSameKind == "ConnectionPoolExhausted"
CreateError == "Exception"

\* conn = self._pool.get(timeout=10) returns an idle connection, which is
\* validated (line 298): a valid one is yielded, an invalid one is closed
\* and taken off the live count before a replacement is created.
TakeIdleShared(t) ==
  /\ pool # << >>
  /\ pool' = pool
  /\ IF Validate(Head(pool))
     THEN /\ Yield(t, Head(pool))
          /\ UNCHANGED << current_size, nextConn, closed >>
     ELSE /\ closed' = closed \cup {Head(pool)}
          /\ current_size' = current_size - 1
          /\ th_pc' = [th_pc EXCEPT ![t] = "replacing"]
          /\ UNCHANGED << active_connections, nextConn, th_conn, th_attempt,
                          th_thrown, th_err >>
TakeIdle(t) ==
  /\ pool # << >>
  /\ pool' = Tail(pool)
  /\ IF Validate(Head(pool))
     THEN /\ Yield(t, Head(pool))
          /\ UNCHANGED << current_size, nextConn, closed >>
     ELSE /\ closed' = closed \cup {Head(pool)}
          /\ current_size' = current_size - 1
          /\ th_pc' = [th_pc EXCEPT ![t] = "replacing"]
          /\ UNCHANGED << active_connections, nextConn, th_conn, th_attempt,
                          th_thrown, th_err >>

\* self._pool.get(timeout=10) raises Empty: under the lock, create an
\* overflow connection below the cap (pyodbc.connect succeeds or
\* _create_connection returns None), raise ConnectionPoolExhausted at it.
GetTimesOut(t) ==
  /\ pool = << >>
  /\ pool' = pool
  /\ closed' = closed
  /\ IF current_size < Cap
     THEN \/ /\ nextConn <= MaxConns
             /\ nextConn' = nextConn + 1
             /\ current_size' = current_size + 1
             /\ Yield(t, nextConn)
          \/ /\ NextAttemptOrReturn(t)
             /\ UNCHANGED << nextConn, current_size, active_connections >>
     ELSE /\ RetryOrRaise(t, ExhaustedError)
          /\ UNCHANGED << nextConn, current_size, active_connections >>

\* One attempt of the retry loop, from self._pool.get to the yield, the
\* replacement or the except clause.
Attempt(t) ==
  /\ th_pc[t] = "getting"
  /\ \/ TakeIdle(t)
     \/ GetTimesOut(t)
  /\ UNCHANGED << nonPoolVars, pool_size, max_overflow, expired, broken,
                  calls, ca_pc >>

\* Lines 308-314: conn = self._create_connection() for the closed one.
Replace(t) ==
  /\ th_pc[t] = "replacing"
  /\ \/ /\ nextConn <= MaxConns
        /\ nextConn' = nextConn + 1
        /\ current_size' = current_size + 1
        /\ Yield(t, nextConn)
     \/ /\ RetryOrRaise(t, CreateError)
        /\ UNCHANGED << nextConn, current_size, active_connections >>
  /\ UNCHANGED << nonPoolVars, pool_size, max_overflow, pool, closed, expired,
                  broken, calls, ca_pc >>

\* time.sleep(min(0.5 * (retry_attempt + 1), 3.0)) is over: continue
BackoffDone(t) ==
  /\ th_pc[t] = "backoff"
  /\ th_pc' = [th_pc EXCEPT ![t] = "getting"]
  /\ th_attempt' = [th_attempt EXCEPT ![t] = @ + 1]
  /\ UNCHANGED << nonPoolVars, pool_size, max_overflow, pool, current_size,
                  active_connections, nextConn, closed, expired, broken,
                  th_conn, th_thrown, th_err, calls, ca_pc >>

\* _return_connection: put_nowait succeeds for a valid connection while the
\* idle queue (maxsize = pool_size + max_overflow) has room
ReturnPuts(c) == Validate(c) /\ Len(pool) < Cap

ReturnConnectionKeepsCount(c) ==
  /\ active_connections' = active_connections - 1
  /\ current_size' = current_size
  /\ IF ReturnPuts(c)
     THEN /\ pool' = Append(pool, c)
          /\ closed' = closed
     ELSE /\ pool' = pool
          /\ closed' = closed \cup {c}
ReturnConnection(c) ==
  /\ active_connections' = active_connections - 1
  /\ IF ReturnPuts(c)
     THEN /\ pool' = Append(pool, c)
          /\ closed' = closed
          /\ current_size' = current_size
     ELSE /\ pool' = pool
          /\ closed' = closed \cup {c}
          /\ current_size' = current_size - 1

\* The with-body ends normally: __exit__ resumes the generator, the finally
\* clause returns the connection, break ends the loop.
BodyReturns(t) ==
  /\ th_pc[t] = "holding"
  /\ ReturnConnection(th_conn[t])
  /\ th_pc' = [th_pc EXCEPT ![t] = "idle"]
  /\ th_err' = [th_err EXCEPT ![t] = "ok"]
  /\ th_conn' = [th_conn EXCEPT ![t] = NoConn]
  /\ UNCHANGED << nonPoolVars, pool_size, max_overflow, nextConn, expired,
                  broken, th_attempt, th_thrown, calls, ca_pc >>

\* The with-body raises: __exit__ throws the exception into the generator at
\* the yield, the finally clause returns the connection, and the exception
\* then reaches the retry loop's own except clause (line 333), which sleeps
\* and retries, or re-raises it after the last attempt.
BodyRaises(t) ==
  /\ th_pc[t] = "holding"
  /\ ReturnConnection(th_conn[t])
  /\ IF th_attempt[t] < retry_count
     THEN /\ th_pc' = [th_pc EXCEPT ![t] = "backoff"]
          /\ th_err' = th_err
     ELSE /\ th_pc' = [th_pc EXCEPT ![t] = "idle"]
          /\ th_err' = [th_err EXCEPT ![t] = "body"]
  /\ th_thrown' = [th_thrown EXCEPT ![t] = TRUE]
  /\ th_conn' = [th_conn EXCEPT ![t] = NoConn]
  /\ UNCHANGED << nonPoolVars, pool_size, max_overflow, nextConn, expired,
                  broken, th_attempt, calls, ca_pc >>

\* The suspended generator is closed (by the interpreter when it is
\* collected): GeneratorExit at the yield, the finally clause returns the
\* connection.
GeneratorClosed(t) ==
  /\ th_pc[t] = "suspended"
  /\ ReturnConnection(th_conn[t])
  /\ th_pc' = [th_pc EXCEPT ![t] = "idle"]
  /\ th_conn' = [th_conn EXCEPT ![t] = NoConn]
  /\ UNCHANGED << nonPoolVars, pool_size, max_overflow, nextConn, expired,
                  broken, th_attempt, th_thrown, th_err, calls, ca_pc >>

\* close_all: one iteration of `while not self._pool.empty()`
CloseAllStep ==
  /\ ca_pc \in {"idle", "draining"}
  /\ pool # << >>
  /\ pool' = Tail(pool)
  /\ closed' = closed \cup {Head(pool)}
  /\ ca_pc' = "draining"
  /\ UNCHANGED << nonPoolVars, pool_size, max_overflow, current_size,
                  active_connections, nextConn, expired, broken, th_pc,
                  th_conn, th_attempt, th_thrown, th_err, calls >>

\* close_all: the loop finds the queue empty; self._current_size = 0
CloseAllFinishEarly ==
  /\ ca_pc \in {"idle", "draining"}
  /\ current_size' = 0
  /\ ca_pc' = "done"
  /\ UNCHANGED << nonPoolVars, pool_size, max_overflow, pool,
                  active_connections, nextConn, closed, expired, broken, th_pc,
                  th_conn, th_attempt, th_thrown, th_err, calls >>
CloseAllFinish ==
  /\ ca_pc \in {"idle", "draining"}
  /\ pool = << >>
  /\ current_size' = 0
  /\ ca_pc' = "done"
  /\ UNCHANGED << nonPoolVars, pool_size, max_overflow, pool,
                  active_connections, nextConn, closed, expired, broken, th_pc,
                  th_conn, th_attempt, th_thrown, th_err, calls >>

PoolNext ==
  \/ \E t \in Threads : GetConnection(t)
  \/ \E t \in Threads : Attempt(t)
  \/ \E t \in Threads : Replace(t)
  \/ \E t \in Threads : BackoffDone(t)
  \/ \E t \in Threads : BodyReturns(t)
  \/ \E t \in Threads : BodyRaises(t)
  \/ \E t \in Threads : GeneratorClosed(t)
  \/ \E c \in ConnIds : ConnExpires(c)
  \/ \E c \in ConnIds : ConnBreaks(c)
  \/ CloseAllStep
  \/ CloseAllFinish

PoolSpec == PoolInit /\ [][PoolNext]_vars

\* The callers alone, with connections that age: every thread is scheduled,
\* and self._pool.get(timeout=10), pyodbc.connect and time.sleep all end.
WaitNext ==
  \/ \E t \in Threads : GetConnection(t)
  \/ \E t \in Threads : Attempt(t)
  \/ \E t \in Threads : Replace(t)
  \/ \E t \in Threads : BackoffDone(t)
  \/ \E t \in Threads : BodyReturns(t)
  \/ \E t \in Threads : BodyRaises(t)
  \/ \E t \in Threads : GeneratorClosed(t)
  \/ \E c \in ConnIds : ConnExpires(c)

WaitSpec ==
  /\ PoolInit
  /\ [][WaitNext]_vars
  /\ \A t \in Threads :
       /\ WF_vars(Attempt(t))
       /\ WF_vars(Replace(t))
       /\ WF_vars(BackoffDone(t))


\* ============================================================ TokenBucket
\* TokenBucket(capacity, refill_rate): capacity in units, refill_rate in
\* units per tick (refill_rate / TokenScale tokens per tick).
capacity == BucketCapacity * TokenScale
refill_rate == 1
\* consume(tokens=n), n in tokens
ConsumeInputs == {1, 2}

\* min(self.capacity, self.tokens + elapsed * self.refill_rate)
RefilledUncapped(tok, last, t, cap, rate) == tok + (t - last) * rate
Refilled(tok, last, t, cap, rate) == Min(cap, tok + (t - last) * rate)

BucketInit ==
  /\ QueueInit
  /\ max_workers = 1
  /\ max_queue_size = 1
  /\ PoolAbsent
  /\ RateAbsent
  /\ LoginAbsent
  /\ BreakerAbsent
  /\ now = 0
  /\ tokens = capacity
  /\ last_refill = 0
  /\ tb_ret = "none"
  /\ tb_wait = << 0, 1 >>
  /\ tb_capped = FALSE
  /\ tb_op = "none"
  /\ tb_n = 0
  /\ tb_burst = 0
  /\ tb_drain = -1
  /\ tb_recovered = FALSE

\* the clock moves on (it never goes back)
Tick ==
  /\ now < MaxClock
  /\ now' = now + 1
  /\ tb_burst' = 0
  /\ UNCHANGED << nonBucketVars, tokens, last_refill, tb_ret, tb_wait, tb_capped,
                  tb_op, tb_n, tb_drain, tb_recovered >>

ConsumeDropsRefill(n) ==
  LET refilled == Refilled(tokens, last_refill, now, capacity, refill_rate) IN
  /\ last_refill' = now
  /\ tb_capped' = (tokens + (now - last_refill) * refill_rate > capacity)
  /\ IF refilled >= n * TokenScale
     THEN /\ tokens' = refilled - n * TokenScale
          /\ tb_ret' = "True"
          /\ tb_burst' = IF n = 1 /\ (tb_burst > 0 \/ refilled = capacity)
                         THEN tb_burst + 1 ELSE 0
          /\ tb_drain' = IF tb_burst' = BucketCapacity THEN now ELSE -1
          /\ tb_recovered' = (tb_drain >= 0)
     ELSE /\ tokens' = tokens
          /\ tb_ret' = "False"
          /\ tb_burst' = 0
          /\ tb_drain' = tb_drain
          /\ tb_recovered' = FALSE
  /\ tb_op' = "consume"
  /\ tb_n' = n
  /\ UNCHANGED << nonBucketVars, now, tb_wait >>
\* consume(n), under self.lock
Consume(n) ==
  LET refilled == Refilled(tokens, last_refill, now, capacity, refill_rate) IN
  /\ last_refill' = now
  /\ tb_capped' = (tokens + (now - last_refill) * refill_rate > capacity)
  /\ IF refilled >= n * TokenScale
     THEN /\ tokens' = refilled - n * TokenScale
          /\ tb_ret' = "True"
          /\ tb_burst' = IF n = 1 /\ (tb_burst > 0 \/ refilled = capacity)
                         THEN tb_burst + 1 ELSE 0
          /\ tb_drain' = IF tb_burst' = BucketCapacity THEN now ELSE -1
          /\ tb_recovered' = (tb_drain >= 0)
     ELSE /\ tokens' = refilled
          /\ tb_ret' = "False"
          /\ tb_burst' = 0
          /\ tb_drain' = tb_drain
          /\ tb_recovered' = FALSE
  /\ tb_op' = "consume"
  /\ tb_n' = n
  /\ UNCHANGED << nonBucketVars, now, tb_wait >>

\* get_wait_time(), under self.lock: 0.0 with a whole token in the bucket,
\* (1 - self.tokens) / self.refill_rate otherwise, kept as a fraction
GetWaitTime ==
  /\ tb_wait' = IF tokens >= TokenScale THEN << 0, 1 >>
                ELSE << TokenScale - tokens, refill_rate >>
  /\ tb_op' = "get_wait_time"
  /\ UNCHANGED << nonBucketVars, now, tokens, last_refill, tb_ret, tb_capped,
                  tb_n, tb_burst, tb_drain, tb_recovered >>

BucketNext ==
  \/ Tick
  \/ \E n \in ConsumeInputs : Consume(n)
  \/ GetWaitTime

BucketSpec == BucketInit /\ [][BucketNext]_vars


\* ============================================================ RateLimiter
\* One tick is 1800 s here.  A token is TokenUnits units, so that the hour
\* bucket's refill per tick (requests_per_hour / 3600 * 1800 tokens) is a
\* whole number of units.
TokenUnits == 2 * TokenScale
cleanup_interval == 2        \* 3600 s
stale_age == 4               \* 7200 s
Ips == 1..MaxIps

\* TokenBucket(requests_per_minute, requests_per_minute / 60.0)
MinuteCapacity == requests_per_minute * TokenUnits
MinuteRate == 30 * requests_per_minute * TokenUnits
\* TokenBucket(requests_per_hour, requests_per_hour / 3600.0)
HourCapacity == requests_per_hour * TokenUnits
HourRate == requests_per_hour * TokenScale

RateInit ==
  /\ QueueInit
  /\ max_workers = 1
  /\ max_queue_size = 1
  /\ PoolAbsent
  /\ BucketAbsent
  /\ LoginAbsent
  /\ BreakerAbsent
  /\ requests_per_minute \in 1..MaxPerMinute
  /\ requests_per_hour \in 1..MaxPerHour
  /\ buckets = << >>
  /\ last_cleanup = 0
  /\ rl_ret = << TRUE, << 0, 1 >> >>
  /\ rl_ip = 0
  /\ rl_by = "none"
  /\ rl_seq = 0
  /\ rl_ref = << >>
  /\ rl_ref_ret = TRUE
  /\ rl_back = FALSE

\* the defaultdict's factory: a pair of full buckets created now
NewPair ==
  [mt |-> MinuteCapacity, ml |-> now, ht |-> HourCapacity, hl |-> now]

\* _cleanup_old_buckets: at most once per cleanup_interval, drop the pairs
\* whose minute bucket was last refilled more than 7200 s ago
CleanupDue == ~(now - last_cleanup < cleanup_interval)
\* a sweep that drops every identity once it is due
EvictEverything == IF CleanupDue THEN << >> ELSE buckets
AfterCleanup ==
  IF CleanupDue
  THEN [ ip \in { i \in DOMAIN buckets : ~(now - buckets[i].ml > stale_age) }
           |-> buckets[ip] ]
  ELSE buckets

\* minute_bucket, hour_bucket = self.buckets[client_ip]
PairOf(ip) == IF ip \in DOMAIN AfterCleanup THEN AfterCleanup[ip] ELSE NewPair

\* the two buckets' token counts once refilled to now
MinuteRefilled(b) == Refilled(b.mt, b.ml, now, MinuteCapacity, MinuteRate)
HourRefilled(b) == Refilled(b.ht, b.hl, now, HourCapacity, HourRate)

\* get_wait_time of a bucket holding x units: a fraction of a tick
WaitTime(x, rate) == IF x >= TokenUnits THEN << 0, 1 >> ELSE << TokenUnits - x, rate >>

\* the outcome of the two consume() calls: which bucket rejects, if any
RejectedByMinuteOnly(b) ==
  IF MinuteRefilled(b) < TokenUnits THEN "minute" ELSE "none"
RejectedBy(b) ==
  IF MinuteRefilled(b) < TokenUnits THEN "minute"
  ELSE IF HourRefilled(b) < TokenUnits THEN "hour"
  ELSE "none"

\* the pair b after minute_bucket.consume(1) and, when that succeeded,
\* hour_bucket.consume(1)
AfterConsumes(b) ==
  LET m == MinuteRefilled(b)
      h == HourRefilled(b)
      by == RejectedBy(b)
  IN IF by = "minute"
     THEN [b EXCEPT !.mt = m, !.ml = now]
     ELSE IF by = "hour"
     THEN [b EXCEPT !.mt = m - TokenUnits, !.ml = now, !.ht = h, !.hl = now]
     ELSE [b EXCEPT !.mt = m - TokenUnits, !.ml = now,
                    !.ht = h - TokenUnits, !.hl = now]

\* the pair the reference limiter uses: self.buckets[client_ip] of a
\* table nothing was evicted from
RefPairOf(ip) == IF ip \in DOMAIN rl_ref THEN rl_ref[ip] ELSE NewPair

\* check_rate_limit(client_ip)
CheckRateLimit(ip) ==
  /\ rl_seq < MaxRequests
  /\ rl_seq' = rl_seq + 1
  /\ rl_ip' = ip
  /\ last_cleanup' = IF CleanupDue THEN now ELSE last_cleanup
  /\ rl_ref' = Put(rl_ref, ip, AfterConsumes(RefPairOf(ip)))
  /\ rl_ref_ret' = (RejectedBy(RefPairOf(ip)) = "none")
  /\ rl_back' = (ip \in DOMAIN rl_ref /\ ip \notin DOMAIN AfterCleanup)
  /\ LET b == PairOf(ip)
         m == MinuteRefilled(b)
         h == HourRefilled(b)
         by == RejectedBy(b)
     IN /\ rl_by' = by
        /\ buckets' = Put(AfterCleanup, ip, AfterConsumes(b))
        /\ rl_ret' = IF by = "minute" THEN << FALSE, WaitTime(m, MinuteRate) >>
                     ELSE IF by = "hour" THEN << FALSE, WaitTime(h, HourRate) >>
                     ELSE << TRUE, << 0, 1 >> >>
  /\ UNCHANGED << nonRateVars, now, requests_per_minute, requests_per_hour >>

RateNext ==
  \/ Tick
  \/ \E ip \in Ips : CheckRateLimit(ip)

RateSpec == RateInit /\ [][RateNext]_vars


\* ======================================================= LoginRateLimiter
lockout_duration == 2          \* 900 s
login_cleanup_interval == 4    \* 1800 s

LoginInit ==
  /\ QueueInit
  /\ max_workers = 1
  /\ max_queue_size = 1
  /\ PoolAbsent
  /\ BucketAbsent
  /\ RateAbsent
  /\ BreakerAbsent
  /\ max_attempts \in 1..MaxAttempts
  /\ attempts = << >>
  /\ login_last_cleanup = 0
  /\ lg_op = "none"
  /\ lg_ip = 0
  /\ lg_ret = << TRUE, 0 >>
  /\ lg_lockout = 0
  /\ lg_was = FALSE
  /\ lg_prev = << "none", 0, FALSE >>
  /\ lg_ref = << >>
  /\ lg_ref_ret = TRUE

\* the filter below with the comparison turned into <=
RecentInclusive(ts) == SelectSeq(ts, LAMBDA t : now - t <= lockout_duration)
\* [t for t in ts if now - t < self.lockout_duration]
Recent(ts) == SelectSeq(ts, LAMBDA t : now - t < lockout_duration)

\* self.attempts[ip] of a defaultdict(list), read without inserting
AttemptsOf(a, ip) == IF ip \in DOMAIN a THEN a[ip] ELSE << >>

\* _cleanup_old_attempts: at most once per cleanup_interval, filter every
\* list and drop the identities whose list became empty
LoginCleanupDue == ~(now - login_last_cleanup < login_cleanup_interval)
AfterLoginCleanup ==
  IF LoginCleanupDue
  THEN [ ip \in { i \in DOMAIN attempts : Recent(attempts[i]) # << >> }
           |-> Recent(attempts[ip]) ]
  ELSE attempts

\* min(ts) of a non-empty list
MinOf(ts) == CHOOSE t \in Range(ts) : \A u \in Range(ts) : t <= u

\* the identity has max_attempts attempts younger than lockout_duration
LockedOut(ip) == Len(Recent(AttemptsOf(attempts, ip))) >= max_attempts

\* the history kept on every call
Remember(op, ip) ==
  /\ lg_op' = op
  /\ lg_ip' = ip
  /\ lg_was' = LockedOut(ip)
  /\ lg_prev' = << lg_op, lg_ip, lg_was >>

\* a check that records the attempt whether it allows it or not
RecordedAlways(cur) == Append(cur, now)
\* the identity's list after the check: the attempt is appended when allowed
Recorded(cur) == IF Len(cur) >= max_attempts THEN cur ELSE Append(cur, now)

\* check_login_attempt(client_ip)
CheckLoginAttempt(ip) ==
  /\ login_last_cleanup' = IF LoginCleanupDue THEN now ELSE login_last_cleanup
  /\ LET cur == Recent(AttemptsOf(lg_ref, ip))
     IN IF Len(cur) >= max_attempts
        THEN /\ lg_ref' = Put(lg_ref, ip, Recorded(cur))
             /\ lg_ref_ret' = FALSE
        ELSE /\ lg_ref' = Put(lg_ref, ip, Recorded(cur))
             /\ lg_ref_ret' = TRUE
  /\ LET cur == Recent(AttemptsOf(AfterLoginCleanup, ip))
     IN IF Len(cur) >= max_attempts
        THEN /\ attempts' = Put(AfterLoginCleanup, ip, Recorded(cur))
             /\ lg_ret' = << FALSE, 0 >>
        ELSE /\ attempts' = Put(AfterLoginCleanup, ip, Recorded(cur))
             /\ lg_ret' = << TRUE, max_attempts - (Len(cur) + 1) >>
  /\ Remember("check", ip)
  /\ UNCHANGED << nonLoginVars, now, max_attempts, lg_lockout >>

\* get_lockout_time(client_ip)
GetLockoutTime(ip) ==
  /\ lg_ref' = IF ip \in DOMAIN lg_ref
               THEN Put(lg_ref, ip, Recent(lg_ref[ip]))
               ELSE lg_ref
  /\ IF ip \notin DOMAIN attempts
     THEN /\ lg_lockout' = 0
          /\ attempts' = attempts
     ELSE LET cur == Recent(attempts[ip])
          IN /\ attempts' = Put(attempts, ip, cur)
             /\ lg_lockout' = IF Len(cur) < max_attempts
                              THEN 0
                              ELSE Max(0, lockout_duration - (now - MinOf(cur)))
  /\ Remember("lockout", ip)
  /\ UNCHANGED << nonLoginVars, now, max_attempts, login_last_cleanup, lg_ret,
                  lg_ref_ret >>

\* reset_attempts(client_ip) that forgets every identity
ResetEveryone(ip) ==
  /\ attempts' = << >>
  /\ lg_ref' = Del(lg_ref, {ip})
  /\ Remember("reset", ip)
  /\ UNCHANGED << nonLoginVars, now, max_attempts, login_last_cleanup, lg_ret,
                  lg_lockout, lg_ref_ret >>

\* reset_attempts(client_ip)
ResetAttempts(ip) ==
  /\ attempts' = Del(attempts, {ip})
  /\ lg_ref' = Del(lg_ref, {ip})
  /\ Remember("reset", ip)
  /\ UNCHANGED << nonLoginVars, now, max_attempts, login_last_cleanup, lg_ret,
                  lg_lockout, lg_ref_ret >>

LoginNext ==
  \/ Tick
  \/ \E ip \in Ips : CheckLoginAttempt(ip)
  \/ \E ip \in Ips : GetLockoutTime(ip)
  \/ \E ip \in Ips : ResetAttempts(ip)

LoginSpec == LoginInit /\ [][LoginNext]_vars


\* ------------------------------------------------ the two limiters' sweeps
\* A process with one of the two limiters constructed.  The limiters share
\* no state, so their behaviours are explored side by side.
SweepInit == RateInit \/ LoginInit

SweepNext ==
  \/ Tick
  \/ requests_per_minute > 0 /\ \E ip \in Ips : CheckRateLimit(ip)
  \/ max_attempts > 0 /\ \E ip \in Ips : CheckLoginAttempt(ip)
  \/ max_attempts > 0 /\ \E ip \in Ips : GetLockoutTime(ip)
  \/ max_attempts > 0 /\ \E ip \in Ips : ResetAttempts(ip)

SweepSpec == SweepInit /\ [][SweepNext]_vars

\* ========================================================= CircuitBreaker
recovery_timeout == 2          \* 60.0 s

BreakerInit ==
  /\ QueueInit
  /\ max_workers = 1
  /\ max_queue_size = 1
  /\ PoolAbsent
  /\ BucketAbsent
  /\ RateAbsent
  /\ LoginAbsent
  /\ failure_threshold \in 1..MaxThreshold
  /\ failure_count = 0
  /\ last_failure_time = NoTime
  /\ state = "closed"
  /\ cb_pc = [c \in Callers |-> "idle"]
  /\ cb_entry = [c \in Callers |-> "none"]
  /\ cb_trial = [c \in Callers |-> FALSE]
  /\ cb_op = "none"
  /\ cb_who = 0
  /\ cb_was_trial = FALSE
  /\ cb_consec = 0
  /\ cb_invoked = 0
  /\ cb_calls = 0

\* _should_attempt_reset without the test of the elapsed time
ShouldAttemptResetAtOnce ==
  /\ state = "open"
  /\ last_failure_time # NoTime
\* _should_attempt_reset
ShouldAttemptReset ==
  /\ state = "open"
  /\ last_failure_time # NoTime
  /\ now - last_failure_time >= recovery_timeout

\* the head of call and call_async: the call is rejected with
\* CircuitBreakerOpen ...
Rejects == state = "open" /\ ~ShouldAttemptReset
\* ... or the function is invoked, with self.state set to this
StateAtInvocation == IF state = "open" THEN "half_open" ELSE state

\* the try block after the function returned, with self.state = st
StateAfterSuccess(st) == IF st = "half_open" THEN "closed" ELSE st
CountAfterSuccess(st) == IF st = "half_open" THEN 0 ELSE failure_count

\* the except block, with self.state = st
StateAfterFailure(st) ==
  IF st = "half_open" THEN "open"
  ELSE IF failure_count + 1 >= failure_threshold THEN "open"
  ELSE st

\* call(func) or call_async(func) while the breaker is open and the
\* recovery timeout has not elapsed: raises CircuitBreakerOpen
CallRejected(c) ==
  /\ cb_calls < MaxBreakerCalls
  /\ c \in Callers => cb_pc[c] = "idle"
  /\ Rejects
  /\ cb_calls' = cb_calls + 1
  /\ cb_op' = "rejected"
  /\ cb_who' = c
  /\ UNCHANGED << nonBreakerVars, now, failure_threshold, failure_count,
                  last_failure_time, state, cb_pc, cb_entry, cb_trial,
                  cb_was_trial, cb_consec, cb_invoked >>

\* call(func): the check, the function and the bookkeeping in one step
Call(ok) ==
  /\ cb_calls < MaxBreakerCalls
  /\ ~Rejects
  /\ cb_calls' = cb_calls + 1
  /\ cb_invoked' = cb_invoked + 1
  /\ cb_was_trial' = (state = "open")
  /\ cb_who' = 0
  /\ IF ok
     THEN /\ state' = StateAfterSuccess(StateAtInvocation)
          /\ failure_count' = CountAfterSuccess(StateAtInvocation)
          /\ last_failure_time' = last_failure_time
          /\ cb_consec' = 0
          /\ cb_op' = "returned"
     ELSE /\ state' = StateAfterFailure(StateAtInvocation)
          /\ failure_count' = failure_count + 1
          /\ last_failure_time' = now
          /\ cb_consec' = cb_consec + 1
          /\ cb_op' = "raised"
  /\ UNCHANGED << nonBreakerVars, now, failure_threshold, cb_pc, cb_entry,
                  cb_trial >>

\* call_async(func) up to its await: the check and the invocation
CallAsyncStart(c) ==
  /\ cb_calls < MaxBreakerCalls
  /\ cb_pc[c] = "idle"
  /\ ~Rejects
  /\ cb_calls' = cb_calls + 1
  /\ cb_invoked' = cb_invoked + 1
  /\ state' = StateAtInvocation
  /\ cb_pc' = [cb_pc EXCEPT ![c] = "running"]
  /\ cb_entry' = [cb_entry EXCEPT ![c] = StateAtInvocation]
  /\ cb_trial' = [cb_trial EXCEPT ![c] = (state = "open")]
  /\ cb_op' = "invoked"
  /\ cb_who' = c
  /\ UNCHANGED << nonBreakerVars, now, failure_threshold, failure_count,
                  last_failure_time, cb_was_trial, cb_consec >>

\* call_async(func): the awaited function returned
CallAsyncReturns(c) ==
  /\ cb_pc[c] = "running"
  /\ state' = StateAfterSuccess(state)
  /\ failure_count' = CountAfterSuccess(state)
  /\ cb_pc' = [cb_pc EXCEPT ![c] = "idle"]
  /\ cb_was_trial' = cb_trial[c]
  /\ cb_trial' = [cb_trial EXCEPT ![c] = FALSE]
  /\ cb_consec' = 0
  /\ cb_op' = "returned"
  /\ cb_who' = c
  /\ UNCHANGED << nonBreakerVars, now, failure_threshold, last_failure_time,
                  cb_entry, cb_invoked, cb_calls >>

\* call_async(func): the awaited function raised expected_exception
CallAsyncRaises(c) ==
  /\ cb_pc[c] = "running"
  /\ state' = StateAfterFailure(state)
  /\ failure_count' = failure_count + 1
  /\ last_failure_time' = now
  /\ cb_pc' = [cb_pc EXCEPT ![c] = "idle"]
  /\ cb_was_trial' = cb_trial[c]
  /\ cb_trial' = [cb_trial EXCEPT ![c] = FALSE]
  /\ cb_consec' = cb_consec + 1
  /\ cb_op' = "raised"
  /\ cb_who' = c
  /\ UNCHANGED << nonBreakerVars, now, failure_threshold, cb_entry,
                  cb_invoked, cb_calls >>

BreakerNext ==
  \/ Tick
  \/ \E c \in Callers \cup {0} : CallRejected(c)
  \/ \E ok \in BOOLEAN : Call(ok)
  \/ \E c \in Callers : CallAsyncStart(c)
  \/ \E c \in Callers : CallAsyncReturns(c)
  \/ \E c \in Callers : CallAsyncRaises(c)

BreakerSpec == BreakerInit /\ [][BreakerNext]_vars

\* =================================================================== claims
CallsOf(id) == { i \in 1..Len(call_log) : call_log[i][2] = id }
InQueue(id) == { i \in 1..Len(queue) : queue[i] = id }
\* an accepted task that waits in the queue or is with a worker
Pending(id) == InQueue(id) # {} \/ \E c \in inflight : c[2] = id
\* a step in which add_task ran (it draws a fresh uuid on every call)
AddTaskStep == nextId' # nextId
\* a step in which get_result returned to its caller
Returned == gr_pc' = "idle" /\ (gr_pc = "sleeping" \/ callerVars' # callerVars)

\* C1: add_task with fewer than max_queue_size tasks waiting returns an
\* identifier never issued before, appends the task to the queue and records
\* a 'queued' Result; with max_queue_size tasks waiting it returns None in
\* the same step and leaves the queue as it was.
C1_AddTaskContract ==
  [][ AddTaskStep =>
        IF Len(queue) < max_queue_size
        THEN /\ add_ret' # None
             /\ add_ret' \notin accepted
             /\ add_ret' \notin DOMAIN processing
             /\ queue' = Append(queue, add_ret')
             /\ StatusIn(processing', add_ret') = "queued"
        ELSE /\ add_ret' = None
             /\ queue' = queue ]_vars

\* C1 witness: a submission was accepted and a later one rejected on a full queue.
C1_Witness ==
  /\ add_ret = None
  /\ nextId > 1
  /\ accepted # {}
  /\ Len(queue) = max_queue_size

\* C2 as stated: in the scenario, a third add_task made before either of the
\* first two tasks has completed is rejected, and the first two tasks both
\* eventually reach 'completed'.
C2_Original ==
  /\ [][ (nextId = 3 /\ AddTaskStep /\ stats.total_processed = 0)
           => add_ret' = None ]_vars
  /\ \A i \in {1, 2} : Pending(i) ~> (StatusOf(i) = "completed")

\* C2 amended: in the scenario, a third add_task made while the first two
\* tasks are both still waiting in the queue is rejected, and the first two
\* tasks both eventually reach 'completed'.
C2_Amended ==
  /\ [][ (nextId = 3 /\ AddTaskStep /\ queue = << 1, 2 >>)
           => add_ret' = None ]_vars
  /\ \A i \in {1, 2} : Pending(i) ~> (StatusOf(i) = "completed")

\* C2 witness: the third submission was rejected and the first two completed.
C2_Witness ==
  /\ nextId = 4
  /\ accepted = {1, 2}
  /\ StatusOf(1) = "completed"
  /\ StatusOf(2) = "completed"

\* C3: every accepted task is in exactly one place: waiting in the queue
\* (once), or passed to the inference call exactly once by one worker, or
\* taken out by shutdown's drain; and only accepted tasks reach a worker.
C3_ExactlyOnce ==
  /\ \A id \in accepted :
       /\ Cardinality(CallsOf(id)) <= 1
       /\ Cardinality(InQueue(id)) + Cardinality(CallsOf(id))
            + (IF id \in drained THEN 1 ELSE 0) = 1
  /\ \A i \in 1..Len(call_log) : call_log[i][2] \in accepted
  /\ drained # {} => sd = "done"

\* C3 witness: two accepted tasks were passed to two different workers.
C3_Witness ==
  /\ Len(call_log) = 2
  /\ call_log[1][1] # call_log[2][1]
  /\ call_log[1][2] # call_log[2][2]

\* the task was passed to a worker and that call has ended, or the task was
\* taken out of the queue by shutdown
Finished(id) ==
  \/ CallsOf(id) # {} /\ ~(\E c \in inflight : c[2] = id)
  \/ id \in drained

C5_ForwardOnly ==
  [][ \A id \in DOMAIN processing :
        processing[id].status \in Terminal =>
          \/ StatusIn(processing', id) = processing[id].status
          \/ id \notin DOMAIN processing' /\ processing[id].expires = "past" ]_vars

\* C5 witness: shutdown has drained a task and cancelled the workers while
\* another task's Result was already 'completed' or 'failed'.
C5_Witness ==
  /\ sd = "done"
  /\ drained # {}
  /\ \E id \in accepted : StatusOf(id) \in {"completed", "failed"}

\* C6: a get_result that returns 'timeout' leaves the queue, the result
\* table, the workers and the calls in progress as they were; and a
\* get_result on a task a worker has finished, whose Result is still in the
\* table, returns that Result's terminal status.
C6_TimeoutIsCallerSide ==
  [][ Returned =>
        /\ gr_ret' = "timeout" =>
             UNCHANGED << queue, processing, workerVars, inflight, stats, sd >>
        /\ (CallsOf(gr_id') # {} /\ StatusOf(gr_id') \in Terminal) =>
             gr_ret' = StatusOf(gr_id') ]_vars

\* C6 witness: a get_result that repeats one that timed out on the same
\* task has returned the task's terminal status.
C6_Witness ==
  /\ gr_retry
  /\ gr_pc = "idle"
  /\ gr_ret \in Terminal
  /\ gr_ret = StatusOf(gr_id)

\* C7: at most max_workers inference calls are in progress, and no worker
\* has two in progress.
C7_BoundedConcurrency ==
  /\ Cardinality(inflight) <= max_workers
  /\ \A w \in AllWorkers : Cardinality({ c \in inflight : c[1] = w }) <= 1

\* C7 witness: with two workers configured, both have a call in progress.
C7_Witness ==
  /\ max_workers = 2
  /\ Cardinality(inflight) = 2

\* C8 as stated: an add_task called once shutdown has started returns None
\* and enqueues nothing.
C8_Claim ==
  [][ (AddTaskStep /\ sd # "idle") => (add_ret' = None /\ queue' = queue) ]_vars

\* C9 as stated: once shutdown has completed, every task its drain took is
\* out of the queue and has a 'cancelled' Result, and a get_result on such a
\* task returns status 'cancelled'.
C9_Claim ==
  [][ /\ sd' = "done" =>
           \A id \in drained' :
             InQueue(id)' = {} /\ StatusIn(processing', id) = "cancelled"
      /\ (Returned /\ sd = "done" /\ gr_id' \in drained) =>
           gr_ret' = "cancelled" ]_vars

\* C10: when a worker's inference call raises, the task's Result becomes
\* 'failed' with the error recorded, that worker stays in its loop and takes
\* the next waiting task (after its back-off sleep, if any), and no other
\* Result and no other worker changes.
C10_FailureIsContained ==
  [][ \A w \in AllWorkers :
        (wstate[w] = "calling" /\ StatusOf(wtask[w]) # "failed"
           /\ StatusIn(processing', wtask[w]) = "failed") =>
          /\ processing'[wtask[w]].error = "exception"
          /\ wstate'[w] \in {"waiting", "calling", "backoff"}
          /\ wstate'[w] = "waiting" => queue = << >>
          /\ wstate'[w] = "calling" => queue # << >> /\ wtask'[w] = Head(queue)
          /\ \A id \in DOMAIN processing \ {wtask[w]} :
               id \in DOMAIN processing' /\ processing'[id] = processing[id]
          /\ \A v \in AllWorkers \ {w} :
               /\ wstate'[v] = wstate[v]
               /\ wtask'[v] = wtask[v]
               /\ consecutive_errors'[v] = consecutive_errors[v]
               /\ cancel_req'[v] = cancel_req[v] ]_vars

\* C10 witness: a worker whose call on one task failed is processing the
\* next task, next to another worker and another Result.
C10_Witness ==
  /\ Len(call_log) = 2
  /\ call_log[1][1] = call_log[2][1]
  /\ StatusOf(call_log[1][2]) = "failed"
  /\ wstate[call_log[2][1]] = "calling"
  /\ wtask[call_log[2][1]] = call_log[2][2]

\* C11: when a worker is cancelled while it is processing a task, that task
\* ends with a Result of status 'cancelled' (never left 'queued', never
\* without a Result).
C11_Claim ==
  [][ \A w \in AllWorkers :
        (wstate[w] = "calling" /\ wstate'[w] = "stopped") =>
          StatusIn(processing', wtask[w]) = "cancelled" ]_vars

\* ---------------------------------------------------------- ConnectionPool
\* t's generator is suspended at its yield with a connection
Holds(t) == th_pc[t] \in {"holding", "suspended"}
Holders(c) == { t \in Threads : Holds(t) /\ th_conn[t] = c }
\* t's step takes the connection at the head of the idle queue
TakesIdle(t) ==
  /\ th_pc[t] = "getting"
  /\ pool # << >>
  /\ th_pc'[t] \in {"holding", "suspended", "replacing"}
\* t's step runs _return_connection on the connection it holds
Releases(t) == Holds(t) /\ th_pc'[t] \notin {"holding", "suspended"}
\* t's with statement is left in this step, the body having run
BodyRan(t) == th_pc[t] = "holding" \/ th_thrown[t]
Exits(t) ==
  /\ BodyRan(t)
  /\ th_pc[t] \in {"holding", "getting", "replacing", "backoff"}
  /\ th_pc'[t] \in {"idle", "suspended"}

\* C12: with get_connection calls and releases only (no close_all), the number
\* of connections lent out at the same time never exceeds
\* pool_size + max_overflow.
C12_Claim == (ca_pc = "idle") => active_connections <= Cap

\* C13: no connection is held by two callers at the same time, and a
\* connection that is held is not in the idle pool (nor is one idle twice).
C13_NoSharedConnection ==
  /\ \A c \in ConnIds : Cardinality(Holders(c)) <= 1
  /\ \A t \in Threads : Holds(t) => th_conn[t] \notin Range(pool)
  /\ \A i, j \in 1..Len(pool) : pool[i] = pool[j] => i = j

\* C13 witness: a connection that was lent and returned is lent again while
\* the other thread holds another connection.
C13_Witness ==
  /\ calls = 3
  /\ \A t \in Threads : th_pc[t] = "holding"
  /\ th_conn[1] # th_conn[2]

\* C14: a pooled connection that is too old or fails the liveness query is
\* never yielded: the acquisition closes it, takes it off the live count and
\* goes on to create a replacement; a connection a caller receives is one
\* that passed both checks or was just created.
C14_NeverYieldsInvalid ==
  [][ \A t \in Threads :
        /\ TakesIdle(t) =>
             IF Head(pool) \in expired \cup broken
             THEN /\ Head(pool) \in closed'
                  /\ current_size' = current_size - 1
                  /\ th_pc'[t] = "replacing"
                  /\ th_conn'[t] # Head(pool)
             ELSE th_conn'[t] = Head(pool)
        /\ (~Holds(t) /\ th_pc'[t] \in {"holding", "suspended"}) =>
             /\ th_conn'[t] \notin expired \cup broken \cup closed
             /\ th_pc[t] = "replacing" => th_conn'[t] = nextConn ]_vars

\* C14 witness: the first acquisition found the pooled connection too old
\* (while it still answered queries), closed it, and is creating another.
C14_Witness ==
  /\ calls = 1
  /\ ca_pc = "idle"
  /\ \E t \in Threads : th_pc[t] = "replacing"
  /\ \E c \in ConnIds : c \in closed /\ c \in expired /\ c \notin broken

\* C15: when the caller's scoped block exits, normally or by an exception,
\* the connection it was given has been released: it is back in the idle
\* pool or closed, and the finished call holds no connection and counts none
\* as active.
C15_Claim ==
  [][ \A t \in Threads :
        Exits(t) =>
          /\ th_pc'[t] = "idle"
          /\ th_pc[t] = "holding" =>
               (th_conn[t] \in closed' \/ th_conn[t] \in Range(pool')) ]_vars

\* C16: a get_connection call makes at most retry_count + 1 attempts; an
\* attempt that finds no idle connection with the live count at the cap ends
\* in the back-off sleep, or after the last attempt in
\* ConnectionPoolExhausted; an attempt that finds an idle connection takes
\* it; and every call stops acquiring (it yields or fails).
C16_BoundedWait ==
  /\ [](\A t \in Threads : th_attempt[t] <= retry_count)
  /\ [][ \A t \in Threads :
           /\ (th_pc[t] = "getting" /\ th_pc'[t] # "getting" /\ pool = << >>
                 /\ current_size >= Cap) =>
                IF th_attempt[t] < retry_count
                THEN th_pc'[t] = "backoff"
                ELSE th_pc'[t] = "idle" /\ th_err'[t] = "ConnectionPoolExhausted"
           /\ (th_pc[t] = "getting" /\ pool # << >>
                 /\ << th_pc'[t], th_attempt'[t] >> # << th_pc[t], th_attempt[t] >>) =>
                TakesIdle(t) ]_vars
  /\ \A t \in Threads :
       (th_pc[t] \in {"getting", "backoff", "replacing"})
         ~> (th_pc[t] \in {"idle", "holding", "suspended"})

\* C16 witness: with the only connection lent to the other thread, a call
\* has used its three attempts and ended in ConnectionPoolExhausted.
C16_Witness ==
  \E t, u \in Threads :
    /\ th_pc[t] = "idle"
    /\ th_err[t] = "ConnectionPoolExhausted"
    /\ ~th_thrown[t]
    /\ th_attempt[t] = retry_count
    /\ th_pc[u] = "holding"
    /\ current_size = Cap

\* C17: _return_connection takes one off the active count; a valid
\* connection goes back into the idle pool with the live count unchanged, an
\* invalid one (or one the full queue refuses) is closed and the live count
\* goes down by one.
C17_ReleaseAccounting ==
  [][ \A t \in Threads :
        Releases(t) =>
          /\ active_connections' = active_connections - 1
          /\ IF Validate(th_conn[t]) /\ Len(pool) < Cap
             THEN /\ pool' = Append(pool, th_conn[t])
                  /\ current_size' = current_size
                  /\ th_conn[t] \notin closed'
             ELSE /\ pool' = pool
                  /\ th_conn[t] \in closed'
                  /\ current_size' = current_size - 1 ]_vars

\* C17 witness: after one call that ended normally the pool is empty with a
\* live count of 0: the release closed the invalid connection.
C17_Witness ==
  /\ calls = 1
  /\ ca_pc = "idle"
  /\ \E t \in Threads : th_pc[t] = "idle" /\ th_err[t] = "ok"
  /\ pool = << >>
  /\ current_size = 0
  /\ closed # {}

\* C18: an acquisition that fails at the cap with no idle connection raises
\* ConnectionPoolExhausted; one that fails because no connection could be
\* created raises another kind of error.
C18_FailureKinds ==
  [][ \A t \in Threads :
        (~th_thrown[t] /\ th_pc[t] \in {"getting", "replacing"}
           /\ th_pc'[t] = "idle") =>
          /\ (th_pc[t] = "getting" /\ current_size >= Cap) =>
               th_err'[t] = "ConnectionPoolExhausted"
          /\ (th_pc[t] = "replacing" \/ current_size < Cap) =>
               th_err'[t] \in {"RuntimeError", "Exception"} ]_vars

\* C18 witness: one call ended in ConnectionPoolExhausted, another in the
\* error of a failed creation.
C18_Witness ==
  \E t, u \in Threads :
    /\ th_pc[t] = "idle" /\ ~th_thrown[t]
    /\ th_err[t] = "ConnectionPoolExhausted"
    /\ th_pc[u] = "idle" /\ ~th_thrown[u]
    /\ th_err[u] \in {"RuntimeError", "Exception"}

C20_TokensInRange == 0 <= tokens /\ tokens <= capacity

\* C20 witness: a consume whose refill was cut at capacity, and which then
\* took its tokens from the full bucket.
C20_Witness ==
  /\ tb_capped
  /\ tb_ret = "True"
  /\ last_refill > 0
  /\ tokens < capacity

\* a consume runs in this step
ConsumeStep == tb_op' = "consume" /\ now' = now

\* C21: consume(n) refills by elapsed * refill_rate up to capacity; it
\* succeeds and takes exactly n tokens iff the refilled count is at least n,
\* and otherwise leaves the refilled count; after a failed consume(n) the
\* wait time reported is (n - tokens) / refill_rate.
C21_Claim ==
  /\ [][ ConsumeStep =>
           LET refilled == Min(capacity, tokens + (now - last_refill) * refill_rate) IN
           /\ tb_ret' = "True" <=> refilled >= tb_n' * TokenScale
           /\ tb_ret' = "True" => tokens' = refilled - tb_n' * TokenScale
           /\ tb_ret' = "False" => tokens' = refilled ]_vars
  /\ []( (tb_op = "get_wait_time" /\ tb_ret = "False") =>
           tb_wait[1] * refill_rate = (tb_n * TokenScale - tokens) * tb_wait[2] )

\* C24: once capacity single-token consumes have succeeded at one instant on
\* a full bucket, a single-token consume fails while less than 1/refill_rate
\* has passed since that instant and succeeds once that much has passed.
C24_WaitOneOverRate ==
  [][ (ConsumeStep /\ tb_n' = 1 /\ tb_drain >= 0) =>
        (tb_ret' = "True" <=> (now - tb_drain) * refill_rate >= TokenScale) ]_vars

\* C24 witness: the burst emptied the bucket, and the single-token consume
\* made 1/refill_rate later has just succeeded.
C24_Witness ==
  /\ tb_recovered
  /\ tb_op = "consume"
  /\ tb_n = 1
  /\ tb_ret = "True"
  /\ tokens = 0

\* ------------------------------------------------------------ RateLimiter
\* a check_rate_limit call runs in this step
CheckStep == rl_seq' # rl_seq
\* a / b < c / d for fractions with positive denominators
FracLess(x, y) == x[1] * y[2] < y[1] * x[2]
FracMax(x, y) == IF FracLess(x, y) THEN y ELSE x
FracEq(x, y) == x[1] * y[2] = y[1] * x[2]

\* C22: check_rate_limit admits a request iff the identity's per-minute
\* bucket and its per-hour bucket both hold a whole token at that moment
\* (a new identity's buckets are full).
C22_AdmitsIffBoth ==
  [][ CheckStep =>
        (rl_ret'[1] <=>
           /\ MinuteRefilled(PairOf(rl_ip')) >= TokenUnits
           /\ HourRefilled(PairOf(rl_ip')) >= TokenUnits) ]_vars

\* C22 witness: a request was rejected by the per-hour bucket alone.
C22_Witness ==
  /\ rl_by = "hour"
  /\ ~rl_ret[1]

\* C23: the retry_after of a rejected request is the larger of the wait
\* times of the per-minute and the per-hour bucket.
C23_Claim ==
  [][ (CheckStep /\ ~rl_ret'[1]) =>
        FracEq(rl_ret'[2],
               FracMax(WaitTime(MinuteRefilled(PairOf(rl_ip')), MinuteRate),
                       WaitTime(HourRefilled(PairOf(rl_ip')), HourRate))) ]_vars

\* ------------------------------------------------------- LoginRateLimiter
CheckLoginStep == lg_op' = "check" /\ now' = now
ResetStep == lg_op' = "reset" /\ now' = now
\* the attempts of an identity that count at the current time
Counted(ip) ==
  SelectSeq(AttemptsOf(attempts, ip), LAMBDA t : now - t < lockout_duration)

\* C25: check_login_attempt rejects exactly when the identity already has
\* max_attempts recorded attempts younger than lockout_duration; otherwise
\* it allows the attempt, records it and returns max_attempts minus the
\* number recorded including this one.  Older attempts never count.
C25_RejectsExactlyWhenFull ==
  [][ CheckLoginStep =>
        LET ip == lg_ip'
            n == Len(Counted(ip))
        IN /\ n <= max_attempts
           /\ lg_ret'[1] <=> n # max_attempts
           /\ ~lg_ret'[1] => /\ lg_ret'[2] = 0
                             /\ AttemptsOf(attempts', ip) = Counted(ip)
           /\ lg_ret'[1] => /\ AttemptsOf(attempts', ip) = Append(Counted(ip), now)
                            /\ lg_ret'[2] = max_attempts - (n + 1) ]_vars

\* C25 witness: an identity that was rejected is allowed again, with no
\* reset in between, once its oldest attempt has left the window.
C25_Witness ==
  /\ lg_op = "check"
  /\ lg_ret[1]
  /\ lg_prev = << "check", lg_ip, TRUE >>

\* C26: reset_attempts(identity) removes that identity's history and leaves
\* every other identity's history as it was, and the check_login_attempt
\* that follows it for the same identity is allowed.
C26_ResetClearsOne ==
  /\ [][ ResetStep =>
           /\ lg_ip' \notin DOMAIN attempts'
           /\ \A j \in Ips \ {lg_ip'} :
                /\ j \in DOMAIN attempts' <=> j \in DOMAIN attempts
                /\ AttemptsOf(attempts', j) = AttemptsOf(attempts, j) ]_vars
  /\ [][ (CheckLoginStep /\ lg_op = "reset" /\ lg_ip' = lg_ip) => lg_ret'[1] ]_vars

\* C26 witness: a locked-out identity was reset while another identity had
\* recorded attempts, and its next attempt was allowed.
C26_Witness ==
  /\ lg_op = "check"
  /\ lg_ret[1]
  /\ lg_prev = << "reset", lg_ip, TRUE >>
  /\ \E j \in Ips \ {lg_ip} : AttemptsOf(attempts, j) # << >>

\* --------------------------------------------------------- CircuitBreaker
\* a call or call_async begins in this step
CallBegins == cb_calls' # cb_calls
\* the wrapped function is invoked in this step
Invokes == cb_invoked' # cb_invoked
\* a call ends in this step with the function's result or its exception
Succeeds == cb_op' = "returned" /\ (Invokes \/ cb_pc' # cb_pc)
Fails == cb_op' = "raised" /\ (Invokes \/ cb_pc' # cb_pc)
\* the breaker is open and recovery_timeout has not elapsed
OpenAndWaiting ==
  /\ state = "open"
  /\ last_failure_time # NoTime
  /\ now - last_failure_time < recovery_timeout

\* C27: the wrapped function is invoked only while the breaker is closed or
\* half_open; after failure_threshold consecutive failures the breaker is
\* open; a call made while it is open and before recovery_timeout has
\* passed since the last failure raises CircuitBreakerOpen without invoking
\* the function.
C27_OpenRejects ==
  /\ [][ Invokes => /\ (state = "open" => ~OpenAndWaiting)
                    /\ (cb_op' = "invoked" =>
                          /\ state' \in {"closed", "half_open"}
                          /\ cb_entry'[cb_who'] = state') ]_vars
  /\ [][ (Fails /\ cb_consec' >= failure_threshold) => state' = "open" ]_vars
  /\ [][ (CallBegins /\ OpenAndWaiting) =>
           /\ cb_op' = "rejected"
           /\ ~Invokes
           /\ state' = "open" ]_vars

\* C27 witness: failure_threshold failures in a row opened the breaker and
\* the call after them was rejected.
C27_Witness ==
  /\ cb_op = "rejected"
  /\ state = "open"
  /\ cb_consec = failure_threshold
  /\ failure_count = failure_threshold
  /\ cb_invoked = failure_threshold

\* C28: the first call made once recovery_timeout has elapsed while open
\* moves the breaker to half_open and invokes the function as a trial; when
\* the trial succeeds the breaker is closed with failure_count 0, and when
\* it fails the breaker is open again at once, whatever failure_count is,
\* with last_failure_time set to the time of that failure.
C28_Claim ==
  /\ [][ (CallBegins /\ state = "open" /\ last_failure_time # NoTime
            /\ now - last_failure_time >= recovery_timeout) =>
           /\ Invokes
           /\ (cb_op' = "invoked" => state' = "half_open" /\ cb_trial'[cb_who']) ]_vars
  /\ [][ (Succeeds /\ cb_was_trial') =>
           /\ state' = "closed"
           /\ failure_count' = 0 ]_vars
  /\ [][ (Fails /\ cb_was_trial') =>
           /\ state' = "open"
           /\ last_failure_time' = now ]_vars

\* C29: a success while the breaker is closed resets failure_count to 0,
\* so the breaker goes from closed to open only after failure_threshold
\* failures with no success between them.
C29_Claim ==
  /\ [][ (Succeeds /\ state = "closed") => failure_count' = 0 ]_vars
  /\ [][ (state = "closed" /\ state' = "open") =>
           cb_consec' >= failure_threshold ]_vars

\* the calls in flight whose function was invoked with the breaker half_open
TrialsInFlight ==
  { c \in Callers : cb_pc[c] = "running" /\ cb_entry[c] = "half_open" }

\* C30: while the breaker is half_open at most one trial call is in flight;
\* a call_async that arrives during a half_open trial does not invoke the
\* function.
C30_Claim ==
  state = "half_open" => Cardinality(TrialsInFlight) <= 1

\* C38: a request rejected by check_rate_limit takes no token from either
\* bucket of its identity: after the call both buckets hold what they
\* would hold at this time had the request not been made.
C38_Claim ==
  [][ (CheckStep /\ ~rl_ret'[1]) =>
        LET b == PairOf(rl_ip')
            nb == buckets'[rl_ip']
        IN /\ Refilled(nb.mt, nb.ml, now, MinuteCapacity, MinuteRate) = MinuteRefilled(b)
           /\ Refilled(nb.ht, nb.hl, now, HourCapacity, HourRate) = HourRefilled(b) ]_vars

\* ----------------------------------------------------- the limiters' sweeps
\* C39: eviction never changes an admission decision.  RateLimiter's sweep
\* removes only identities whose minute bucket was last refilled more than
\* 7200 s ago, LoginRateLimiter's sweep removes only attempts that are not
\* younger than lockout_duration, and every check_rate_limit and
\* check_login_attempt answers as a limiter without the sweep answers.
C39_SweepKeepsDecisions ==
  /\ [][ CheckStep =>
           /\ rl_ret'[1] = rl_ref_ret'
           /\ \A ip \in DOMAIN buckets \ DOMAIN AfterCleanup :
                now - buckets[ip].ml > stale_age ]_vars
  /\ [][ CheckLoginStep =>
           /\ lg_ret'[1] = lg_ref_ret'
           /\ \A ip \in DOMAIN attempts :
                \A i \in 1..Len(attempts[ip]) :
                  now - attempts[ip][i] < lockout_duration =>
                    /\ ip \in DOMAIN AfterLoginCleanup
                    /\ attempts[ip][i] \in Range(AfterLoginCleanup[ip]) ]_vars

\* C39 witness (RateLimiter): an identity that had used up its tokens was
\* evicted, came back and was admitted with fresh buckets.
C39_Witness ==
  /\ rl_back
  /\ rl_ret[1]
  /\ rl_ref_ret

\* C40: an identity never has more than max_attempts recorded attempts and
\* a rejected attempt is not recorded; get_lockout_time is positive exactly
\* when check_login_attempt would reject the identity, it is what is left
\* of lockout_duration since the oldest counted attempt, and so it is 0
\* once lockout_duration has passed since that attempt.
C40_LockoutNotExtended ==
  /\ [](\A ip \in DOMAIN attempts : Len(attempts[ip]) <= max_attempts)
  /\ [][ (CheckLoginStep /\ ~lg_ret'[1]) =>
           AttemptsOf(attempts', lg_ip') = Counted(lg_ip') ]_vars
  /\ [][ (lg_op' = "lockout" /\ now' = now) =>
           LET c == Counted(lg_ip')
           IN /\ lg_lockout' > 0 <=> Len(c) >= max_attempts
              /\ lg_lockout' > 0 =>
                   /\ lg_lockout' = lockout_duration - (now - c[1])
                   /\ \A i \in 1..Len(c) : c[1] <= c[i] ]_vars

\* C40 witness: get_lockout_time reports a lockout that is partly over,
\* right after a rejected attempt of the same identity.
C40_Witness ==
  /\ lg_op = "lockout"
  /\ lg_lockout > 0
  /\ lg_lockout < lockout_duration
  /\ lg_prev = << "check", lg_ip, TRUE >>

\* ---------------------------------------------------------- ConnectionPool
\* the body of thread t's scoped block raises in this step
BodyRaisesStep(t) == th_pc[t] = "holding" /\ ~th_thrown[t] /\ th_thrown'[t]

\* C36: when the code inside a get_connection block raises, the pool
\* releases the connection and the same exception reaches the caller: the
\* call ends there, without the back-off sleep and without a further
\* acquisition, and active_connections is again what it was before the
\* acquisition.
C36_Claim ==
  [][ \A t \in Threads :
        BodyRaisesStep(t) =>
          /\ th_pc'[t] = "idle"
          /\ th_err'[t] = "body"
          /\ active_connections' = active_connections - 1 ]_vars

\* no thread is inside get_connection's acquisition or inside close_all
PoolQuiet ==
  /\ ca_pc \in {"idle", "done"}
  /\ \A t \in Threads : th_pc[t] \in {"idle", "holding", "suspended"}

\* C37: between the pool's operations _current_size is the number of idle
\* connections plus the number of lent-out connections, is not negative
\* and does not exceed pool_size + max_overflow.
C37_Claim ==
  PoolQuiet =>
    /\ current_size = Len(pool) + Cardinality({ t \in Threads : Holds(t) })
    /\ current_size >= 0
    /\ current_size <= Cap

\* ------------------------------------------------------------------ queue
\* C33: get_result returns 'timeout' only when the caller's timeout has
\* elapsed, for every timeout value, the 120 s of the chat route included.
C33_Claim ==
  [][ (gr_pc = "sleeping" /\ gr_pc' = "idle" /\ gr_ret' = "timeout") =>
        gr_iter + 1 >= ToSteps(gr_timeout) ]_vars

\* C34: an add_task rejected because the queue is full leaves the result
\* table as it was; only the rejected counter changes, by one.
C34_Claim ==
  [][ (nextId' # nextId /\ add_ret' = None) =>
        /\ processing' = processing
        /\ queue' = queue
        /\ stats' = [stats EXCEPT !.total_rejected = @ + 1] ]_vars

\* C35: the Result of an accepted task that is waiting in the queue or is
\* in a worker's inference call is in the result table.
C35_Claim ==
  \A id \in accepted :
    (\/ \E i \in 1..Len(queue) : queue[i] = id
     \/ \E w \in workers : wstate[w] = "calling" /\ wtask[w] = id)
      => id \in DOMAIN processing

\* C32: a worker leaves its loop only when it is cancelled or when an
\* internal error of the loop (one outside a task's inference call) brings its
\* consecutive-error count to max_consecutive_errors; an internal error below
\* that count keeps it looping; a task failure adds one to the count, writes
\* the 'failed' Result and never ends the worker; a success resets the count.
InLoop(w) == wstate[w] \in {"waiting", "calling", "backoff", "error_backoff"}
Ended(w) == wstate[w] \in {"stopped", "cancelled"}
InternalErrorStep(w) ==
  /\ wstate[w] = "waiting"
  /\ ~cancel_req[w]
  /\ consecutive_errors'[w] = consecutive_errors[w] + 1
TaskFailureStep(w) ==
  /\ wstate[w] = "calling"
  /\ wtask[w] \in DOMAIN processing'
  /\ processing'[wtask[w]].status = "failed"
  /\ StatusOf(wtask[w]) # "failed"
TaskSuccessStep(w) ==
  /\ wstate[w] = "calling"
  /\ wtask[w] \in DOMAIN processing'
  /\ processing'[wtask[w]].status = "completed"
  /\ StatusOf(wtask[w]) # "completed"
C32_WorkerExits ==
  [][ \A w \in workers :
        /\ (InLoop(w) /\ Ended(w)') =>
              \/ cancel_req[w]
              \/ InternalErrorStep(w) /\ consecutive_errors'[w] >= 5
        /\ (InternalErrorStep(w) /\ consecutive_errors'[w] < 5) => InLoop(w)'
        /\ TaskFailureStep(w) =>
              /\ consecutive_errors'[w] = consecutive_errors[w] + 1
              /\ InLoop(w)'
        /\ TaskSuccessStep(w) =>
              /\ consecutive_errors'[w] = 0
              /\ InLoop(w)' ]_vars
\* The worker gave up with a count of 6: it had gone through a failure that
\* left it at 5 without ending it, and nobody had cancelled it.
C32_Witness ==
  /\ sd = "idle"
  /\ \E w \in workers : wstate[w] = "stopped" /\ consecutive_errors[w] = 6
  /\ \E id \in accepted : StatusOf(id) = "failed"
  /\ \E id \in accepted : StatusOf(id) = "completed"

\* C31: a sweep deletes exactly the entries whose expires_at has passed and
\* leaves the others as they are, and every Result that has reached
\* 'completed' or 'failed' is eventually deleted.
C31_SweepPurges ==
  /\ [][ (DOMAIN processing' # DOMAIN processing
            /\ DOMAIN processing' \subseteq DOMAIN processing) =>
           /\ DOMAIN processing' =
                { id \in DOMAIN processing : processing[id].expires # "past" }
           /\ \A id \in DOMAIN processing' : processing'[id] = processing[id] ]_vars
  /\ \A id \in Ids :
       (StatusOf(id) \in {"completed", "failed"}) ~> (id \notin DOMAIN processing)

\* C31 witness: the Result of a task a worker has finished is gone from the
\* table while another Result is still in it.
C31_Witness ==
  /\ \E id \in accepted : Finished(id) /\ id \notin DOMAIN processing
  /\ \E id \in accepted : Finished(id) /\ StatusOf(id) \in {"completed", "failed"}

====
